---- MODULE Spec2Model ----
(***************************************************************************)
(* Kinetic animation DSL: the timeline interpreter (AnimationInterpreter), *)
(* the stagger calculation and the expression resolver of the DSL parser.  *)
(*                                                                         *)
(* Time is counted in half milliseconds, because calculateStaggerDelay     *)
(* yields half-integral multiples of stagger.each for the origins center   *)
(* and edges: Ms(x) is x milliseconds on the model's clock.                *)
(***************************************************************************)
EXTENDS Integers, Sequences, FiniteSets, TLC

VARIABLES
  dsl,              \* AnimationInterpreter.dsl (fixed at construction)
  state,            \* AnimationInterpreter.state
  controls,         \* AnimationInterpreter.controls (ids with a registered handle)
  activeSequences,  \* AnimationInterpreter.activeSequences
  timeouts,         \* AnimationInterpreter.timeouts: the pending timers
  tasks,            \* the suspended async calls (sequence runs, blocks, per-target chains)
  inflight,         \* start() calls on handles that have not resolved yet
  applied,          \* per handle: the state last applied through set()/start()
  runs,             \* every run started by executeSequence, with its id and
                    \* the numbers of blocks executed and of start() calls issued
  ended,            \* runs that emitted sequenceEnd
  stopsPending,     \* stop() calls suspended at "await this.resetToInitial()"
  stopMark,         \* number of runs started before the last stop() call
  sinceStop,        \* "called": stop() was called, "resolved": it has resolved,
                    \* with no play/trigger call since the call; else "no"
  resetDone,        \* handles reset by the last stop()
  stopActive,       \* the last stop() was called during an active run, every
                    \* call of which was suspended on a timer or a start()
  disturbed,        \* some pause/stop/register/unregister call was made
  op,               \* the last public call made
  nextTimer,        \* next setTimeout id
  calls,            \* number of public calls made
  now,              \* the clock, in half milliseconds
  px                \* the expression resolver's position and data

vars == <<dsl, state, controls, activeSequences, timeouts, tasks, inflight,
          applied, runs, ended, stopsPending, stopMark,
          sinceStop, resetDone, stopActive, disturbed, op, nextTimer, calls, now, px>>

ivars == <<dsl, state, controls, activeSequences, timeouts, tasks, inflight,
           applied, runs, ended, stopsPending, stopMark,
           sinceStop, resetDone, stopActive, disturbed, op, nextTimer, calls, now>>

----------------------------------------------------------------------------
\* Bounds

MaxCalls == 3
MaxTime == 20

Ms(x) == 2 * x

Abs(x) == IF x < 0 THEN -x ELSE x
Max(a, b) == IF a >= b THEN a ELSE b

Ids == {"a", "b", "c"}

----------------------------------------------------------------------------
\* Stagger calculation.  The result is in half milliseconds.

\* calculateStaggerDelay with the distance from the centre taken without
\* Math.abs
calculateStaggerDelaySigned(index, total, stagger) ==
  LET from == IF stagger.from = "none" THEN "first" ELSE stagger.from
      center2 == total - 1
      effectiveIndex2 ==
        IF from = "last" THEN 2 * (total - 1 - index)
        ELSE IF from = "center" THEN 2 * index - center2
        ELSE IF from = "edges" THEN center2 - (2 * index - center2)
        ELSE IF from = "number" THEN 2 * (index - stagger.origin)
        ELSE 2 * index
  IN effectiveIndex2 * stagger.each

calculateStaggerDelay(index, total, stagger) ==
  LET from == IF stagger.from = "none" THEN "first" ELSE stagger.from
      center2 == total - 1            \* 2 * ((total - 1) / 2)
      effectiveIndex2 ==
        IF from = "last" THEN 2 * (total - 1 - index)
        ELSE IF from = "center" THEN Abs(2 * index - center2)
        ELSE IF from = "edges" THEN center2 - Abs(2 * index - center2)
        ELSE IF from = "number" THEN 2 * Abs(index - stagger.origin)
        ELSE 2 * index
  IN effectiveIndex2 * stagger.each

----------------------------------------------------------------------------
\* Documents

\* stagger.from is "none" when the field is absent and "number" for a numeric
\* origin, which is then stagger.origin
NoStagger == [has |-> FALSE, each |-> 0, from |-> "none", origin |-> 0]
Stagger(each, from, origin) ==
  [has |-> TRUE, each |-> each, from |-> from, origin |-> origin]
NoRepeat == [has |-> FALSE, count |-> 0, delay |-> 0]
Repeat(count, delay) == [has |-> TRUE, count |-> count, delay |-> delay]
Infinite == -1

Blk(type, target, stagger, offset, delay, duration) ==
  [type |-> type, target |-> target, stagger |-> stagger, offset |-> offset,
   delay |-> delay, duration |-> duration, mode |-> "none", animations |-> <<>>]

Grp(mode, stagger, animations) ==
  [type |-> "group", target |-> <<>>, stagger |-> stagger, offset |-> 0,
   delay |-> 0, duration |-> 0, mode |-> mode, animations |-> animations]

Sequence(id, trigger, repeat, animations) ==
  [id |-> id, trigger |-> trigger, repeat |-> repeat, animations |-> animations]

Mount(delay) == [type |-> "mount", delay |-> delay, element |-> ""]
Tap(element) == [type |-> "tap", delay |-> 0, element |-> element]

FanoutTypes == {"spring", "transition", "keyframes"}

\* two blocks in a row on a mount sequence, and a tap sequence
DocBasic ==
  [elements |-> {"a", "b"},
   sequences |-> <<
     Sequence("s1", Mount(0), NoRepeat,
       << Blk("spring", <<"a">>, NoStagger, 0, 0, 2),
          Blk("transition", <<"b">>, NoStagger, 0, 0, 1) >>),
     Sequence("s2", Tap("a"), NoRepeat,
       << Blk("transition", <<"a">>, NoStagger, 0, 0, 1) >>) >>]

\* a staggered fan-out over a target list that holds an id ("c") with no
\* element and no handle
DocFanout ==
  [elements |-> {"a", "b"},
   sequences |-> <<
     Sequence("s1", Mount(0), NoRepeat,
       << Blk("transition", <<"a", "c", "b">>, Stagger(1, "none", 0), 0, 0, 1),
          Blk("particles", <<>>, NoStagger, 0, 0, 1) >>) >>]

\* a sequence-mode group with an inter-child stagger, then a parallel group
DocGroups ==
  [elements |-> {"a"},
   sequences |-> <<
     Sequence("s1", Mount(0), NoRepeat,
       << Grp("sequence", Stagger(1, "none", 0),
            << Blk("particles", <<>>, NoStagger, 0, 0, 1),
               Blk("text", <<>>, NoStagger, 1, 0, 1),
               Blk("spring", <<"a">>, NoStagger, 0, 0, 1) >>),
          Grp("parallel", NoStagger,
            << Blk("particles", <<>>, NoStagger, 0, 0, 2),
               Blk("transition", <<"a">>, NoStagger, 0, 1, 0),
               Blk("matchCut", <<>>, NoStagger, 0, 0, 1) >>) >>) >>]

\* a delayed mount trigger, a repeat with an inter-iteration delay, a morph
DocRepeat ==
  [elements |-> {"a"},
   sequences |-> <<
     Sequence("s1", Mount(1), Repeat(2, 1),
       << Blk("morph", <<"a">>, NoStagger, 0, 0, 1) >>),
     Sequence("", Tap(""), NoRepeat,
       << Blk("spring", <<"a">>, NoStagger, 0, 0, 1) >>) >>]

\* a staggered fan-out released from the last target on, with an offset and a
\* delay, then a group with an offset and a delay of its own
DocTimed ==
  [elements |-> {"a", "b"},
   sequences |-> <<
     Sequence("s1", Mount(0), NoRepeat,
       << Blk("transition", <<"a", "b">>, Stagger(1, "last", 0), 1, 2, 1),
          [Grp("sequence", NoStagger,
             << Blk("spring", <<"a">>, NoStagger, 0, 0, 1) >>)
             EXCEPT !.offset = 1, !.delay = 1] >>) >>]

Docs == {DocBasic, DocFanout, DocGroups, DocRepeat, DocTimed}

\* the time a handle takes to finish a transition started by start(): the
\* duration handed to it (a spring's settling time is the block's duration)
HostDuration(block) == Ms(block.duration)

RECURSIVE BlockIn(_, _)
BlockIn(animations, path) ==
  IF Len(path) = 1 THEN animations[path[1]]
  ELSE BlockIn(animations[path[1]].animations, Tail(path))

Front(s) == SubSeq(s, 1, Len(s) - 1)

\* crypto.randomUUID(): a fresh id for each run of a sequence without id
Uuids == <<"u1", "u2", "u3", "u4", "u5", "u6", "u7", "u8", "u9", "u10",
           "u11", "u12", "u13", "u14", "u15", "u16">>

----------------------------------------------------------------------------
\* The interpreter's mutable state as one record, so that the synchronous part
\* of a call (everything up to its first suspension) is one function of it.

Cur ==
  [state |-> state, activeSequences |-> activeSequences, timeouts |-> timeouts,
   tasks |-> tasks, inflight |-> inflight, applied |-> applied, runs |-> runs,
   ended |-> ended, nextTimer |-> nextTimer]

Commit(st) ==
  /\ state' = st.state
  /\ activeSequences' = st.activeSequences
  /\ timeouts' = st.timeouts
  /\ tasks' = st.tasks
  /\ inflight' = st.inflight
  /\ applied' = st.applied
  /\ runs' = st.runs
  /\ ended' = st.ended
  /\ nextTimer' = st.nextTimer

\* A suspended async call: the sequence run (path <<>>), a block (path of
\* indices into the animations lists) or the promise chain of one target of
\* a fan-out (tgt > 0).  pc names the await it is suspended at; "fin" and
\* "iterEnd" are awaits of a promise that is already resolved.
NewTask(r, p, g, pc) ==
  [run |-> r, path |-> p, tgt |-> g, pc |-> pc, iter |-> 0, idx |-> 0,
   pend |-> 0, t0 |-> now, reg |-> {}, cnt |-> <<>>]

SameKey(t, u) == t.run = u.run /\ t.path = u.path /\ t.tgt = u.tgt
PutTask(st, t) == [st EXCEPT !.tasks = {u \in @ : ~SameKey(u, t)} \cup {t}]
DropTask(st, t) == [st EXCEPT !.tasks = {u \in @ : ~SameKey(u, t)}]
GetTask(st, r, p, g) ==
  CHOOSE t \in st.tasks : t.run = r /\ t.path = p /\ t.tgt = g

SeqOf(st, r) == dsl.sequences[st.runs[r].seq]
BlockOf(st, r, p) == BlockIn(SeqOf(st, r).animations, p)

Ready(t) == t.pc \in {"fin", "iterEnd"}
QueueEmpty == stopsPending = 0 /\ \A t \in tasks : ~Ready(t)

\* a suspended call that can still go on: its timer is pending, its start()
\* is in flight, or the promise it awaits is resolved
LiveTask(t) ==
  \/ Ready(t)
  \/ \E tm \in timeouts : tm.run = t.run /\ tm.path = t.path /\ tm.tgt = t.tgt
  \/ \E f \in inflight : f.run = t.run /\ f.path = t.path /\ f.tgt = t.tgt
RunLive(r) == \E t \in tasks : t.run = r /\ LiveTask(t)

\* delay(ms): setTimeout (a negative delay is clamped to 0 by the host)
delay(st, r, p, g, hms) ==
  [st EXCEPT !.timeouts = @ \cup {[id |-> st.nextTimer, run |-> r, path |-> p,
                                    tgt |-> g, due |-> now + Max(0, hms)]},
             !.nextTimer = @ + 1]

\* control.start(...) on the handle of element h
IssueStart(st, r, p, g, h) ==
  [st EXCEPT !.applied[h] = "animated",
             !.runs[r].starts[h] = @ + 1,
             !.inflight = @ \cup {[run |-> r, path |-> p, tgt |-> g, h |-> h,
                                    due |-> now + HostDuration(BlockOf(st, r, p))]}]

RECURSIVE executeAnimationBlock(_, _, _), Dispatch(_, _, _), executeChildren(_, _, _, _)

\* the fan-out with every target's timer set to 0 ms
FanOutUnstaggered(st, r, p) ==
  LET b == BlockOf(st, r, p)
      t == GetTask(st, r, p, 0)
      n == Len(b.target)
      regIdx == {i \in 1..n : b.target[i] \in controls}
      rank(i) == Cardinality({j \in regIdx : j < i})
      s1 == PutTask(st, [t EXCEPT !.pc = IF regIdx = {} THEN "fin" ELSE "join",
                                  !.pend = Cardinality(regIdx),
                                  !.reg = regIdx,
                                  !.cnt = [i \in 1..n |-> 0]])
  IN [s1 EXCEPT
        !.tasks = @ \cup {NewTask(r, p, i, "stagger") : i \in regIdx},
        !.timeouts = @ \cup {[id |-> st.nextTimer + rank(i), run |-> r,
                               path |-> p, tgt |-> i, due |-> now] : i \in regIdx},
        !.nextTimer = @ + Cardinality(regIdx)]

\* the fan-out without the check for a missing control: start() is issued
\* for every id of the target list
FanOutNoSkip(st, r, p) ==
  LET b == BlockOf(st, r, p)
      t == GetTask(st, r, p, 0)
      n == Len(b.target)
      staggerDelay(i) ==
        IF b.stagger.has THEN calculateStaggerDelay(i - 1, n, b.stagger) ELSE 0
      s1 == PutTask(st, [t EXCEPT !.pc = IF n = 0 THEN "fin" ELSE "join",
                                  !.pend = n,
                                  !.reg = 1..n,
                                  !.cnt = [i \in 1..n |-> 0]])
  IN [s1 EXCEPT
        !.tasks = @ \cup {NewTask(r, p, i, "stagger") : i \in 1..n},
        !.timeouts = @ \cup {[id |-> st.nextTimer + i - 1, run |-> r,
                               path |-> p, tgt |-> i,
                               due |-> now + Max(0, staggerDelay(i))] : i \in 1..n},
        !.nextTimer = @ + n]

\* executeSpring / executeTransition / executeKeyframes up to Promise.all
FanOut(st, r, p) ==
  LET b == BlockOf(st, r, p)
      t == GetTask(st, r, p, 0)
      n == Len(b.target)
      regIdx == {i \in 1..n : b.target[i] \in controls}
      rank(i) == Cardinality({j \in regIdx : j < i})
      staggerDelay(i) ==
        IF b.stagger.has THEN calculateStaggerDelay(i - 1, n, b.stagger) ELSE 0
      s1 == PutTask(st, [t EXCEPT !.pc = IF regIdx = {} THEN "fin" ELSE "join",
                                  !.pend = Cardinality(regIdx),
                                  !.reg = regIdx,
                                  !.cnt = [i \in 1..n |-> 0]])
  IN [s1 EXCEPT
        !.tasks = @ \cup {NewTask(r, p, i, "stagger") : i \in regIdx},
        !.timeouts = @ \cup {[id |-> st.nextTimer + rank(i), run |-> r,
                               path |-> p, tgt |-> i,
                               due |-> now + Max(0, staggerDelay(i))] : i \in regIdx},
        !.nextTimer = @ + Cardinality(regIdx)]

\* executeGroup that starts the children of every group together
executeGroupAllAtOnce(st, r, p) ==
  LET t == GetTask(st, r, p, 0)
      n == Len(BlockOf(st, r, p).animations)
  IN IF n = 0 THEN PutTask(st, [t EXCEPT !.pc = "fin"])
     ELSE executeChildren(PutTask(st, [t EXCEPT !.pc = "join", !.pend = n]), r, p, 1)

\* executeGroup up to its first await
executeGroup(st, r, p) ==
  LET b == BlockOf(st, r, p)
      t == GetTask(st, r, p, 0)
      n == Len(b.animations)
  IN IF n = 0 THEN PutTask(st, [t EXCEPT !.pc = "fin"])
     ELSE IF b.mode = "parallel"
       THEN executeChildren(PutTask(st, [t EXCEPT !.pc = "join", !.pend = n]), r, p, 1)
       ELSE executeAnimationBlock(PutTask(st, [t EXCEPT !.pc = "child", !.idx = 1]),
                                  r, Append(p, 1))

executeChildren(st, r, p, i) ==
  IF i > Len(BlockOf(st, r, p).animations) THEN st
  ELSE executeChildren(executeAnimationBlock(st, r, Append(p, i)), r, p, i + 1)

\* the switch of executeAnimationBlock, with the handlers it calls
Dispatch(st, r, p) ==
  LET b == BlockOf(st, r, p)
      t == GetTask(st, r, p, 0)
  IN IF b.type \in FanoutTypes THEN FanOut(st, r, p)
     ELSE IF b.type = "group" THEN executeGroup(st, r, p)
     ELSE IF b.type = "morph" THEN
       IF b.target[1] \in controls
         THEN IssueStart(PutTask(st, [t EXCEPT !.pc = "morph"]), r, p, 0, b.target[1])
         ELSE PutTask(st, [t EXCEPT !.pc = "fin"])
     ELSE IF b.type \in {"particles", "text"} THEN
       IF b.duration > 0
         THEN delay(PutTask(st, [t EXCEPT !.pc = "dur"]), r, p, 0, Ms(b.duration))
         ELSE PutTask(st, [t EXCEPT !.pc = "fin"])
     ELSE PutTask(st, [t EXCEPT !.pc = "fin"])

executeAnimationBlock(st, r, p) ==
  LET b == BlockOf(st, r, p)
      t == NewTask(r, p, 0, "fin")
  IN IF st.state = "stopped" THEN PutTask(st, t)
     ELSE LET s1 == [st EXCEPT !.runs[r].blocks = @ + 1]
          IN IF b.offset > 0
               THEN delay(PutTask(s1, [t EXCEPT !.pc = "offset"]), r, p, 0, Ms(b.offset))
             ELSE IF b.delay > 0
               THEN delay(PutTask(s1, [t EXCEPT !.pc = "delay"]), r, p, 0, Ms(b.delay))
             ELSE Dispatch(PutTask(s1, t), r, p)

\* runAnimations from block idx on, up to the first await
runAnimations(st, r, idx) ==
  LET t == GetTask(st, r, <<>>, 0)
  IN IF idx > Len(SeqOf(st, r).animations) \/ st.state = "stopped"
       THEN PutTask(st, [t EXCEPT !.pc = "iterEnd"])
       ELSE executeAnimationBlock(PutTask(st, [t EXCEPT !.pc = "block", !.idx = idx]),
                                  r, <<idx>>)

\* the end of executeSequence
sequenceEnd(st, r) ==
  [DropTask(st, GetTask(st, r, <<>>, 0)) EXCEPT
     !.activeSequences = @ \ {st.runs[r].sid},
     !.ended = @ \cup {r}]

\* the test of the repeat loop and what follows it
repeatLoop(st, r) ==
  LET t == GetTask(st, r, <<>>, 0)
      count == SeqOf(st, r).repeat.count
  IN IF (count = Infinite \/ t.iter < count) /\ st.state # "stopped"
       THEN runAnimations(st, r, 1)
       ELSE sequenceEnd(st, r)

\* executeSequence after the trigger delay
afterTrigger(st, r) ==
  IF SeqOf(st, r).repeat.has THEN repeatLoop(st, r) ELSE runAnimations(st, r, 1)

\* executeSequence(dsl.sequences[k]) up to its first await
executeSequence(st, k) ==
  LET seq == dsl.sequences[k]
      r == Len(st.runs) + 1
      sequenceId == IF seq.id # "" THEN seq.id ELSE Uuids[r]
      s1 == [st EXCEPT
               !.runs = Append(@, [seq |-> k, sid |-> sequenceId,
                                   starts |-> [h \in Ids |-> 0], blocks |-> 0]),
               !.activeSequences = @ \cup {sequenceId},
               !.tasks = @ \cup {NewTask(r, <<>>, 0, "trigDelay")}]
  IN IF sequenceId \in st.activeSequences THEN st
     ELSE IF seq.trigger.type = "mount" /\ seq.trigger.delay > 0
       THEN delay(s1, r, <<>>, 0, Ms(seq.trigger.delay))
       ELSE afterTrigger(s1, r)

RECURSIVE executeAll(_, _)
executeAll(st, ks) ==
  IF ks = <<>> THEN st ELSE executeAll(executeSequence(st, Head(ks)), Tail(ks))

SeqIdx == [i \in 1..Len(dsl.sequences) |-> i]

PxIdle == [pc |-> "idle"]

----------------------------------------------------------------------------
\* The expression resolver (DSLParser).  A string is a sequence of its
\* characters; a variable name is the sequence of the characters of the name.

Digits == <<"0", "1", "2", "3", "4", "5", "6", "7", "8", "9">>
IsDigit(c) == \E i \in 1..10 : Digits[i] = c
DigitVal(c) == (CHOOSE i \in 1..10 : Digits[i] = c) - 1
\* \w of a regular expression, over the letters the documents below use
IsWord(c) == IsDigit(c) \/ c \in {"a", "b", "x", "y", "_"}
\* \s of a regular expression
IsSpace(c) == c \in {" ", "\t", "\n"}
\* [0-9+\-*/.() ]
IsAllowed(c) == IsDigit(c) \/ c \in {"+", "-", "*", "/", ".", "(", ")", " "}

\* the values of variables: a number, a string (its characters), an array of
\* numbers, and the result of a lookup that finds nothing
Num(n) == [t |-> "number", v |-> n]
Str(chars) == [t |-> "string", v |-> chars]
Arr(items) == [t |-> "array", v |-> items]
Undefined == [t |-> "undefined", v |-> 0]

\* String(value) of an integer
RECURSIVE NatToStr(_)
NatToStr(n) ==
  IF n < 10 THEN <<Digits[n + 1]>> ELSE Append(NatToStr(n \div 10), Digits[(n % 10) + 1])
IntToStr(n) == IF n < 0 THEN <<"-">> \o NatToStr(-n) ELSE NatToStr(n)
\* Array.prototype.join(",")
RECURSIVE Join(_)
Join(items) ==
  IF items = <<>> THEN <<>>
  ELSE IF Len(items) = 1 THEN IntToStr(items[1])
  ELSE IntToStr(Head(items)) \o <<",">> \o Join(Tail(items))
\* String(value)
ToStr(value) ==
  IF value.t = "number" THEN IntToStr(value.v)
  ELSE IF value.t = "string" THEN value.v
  ELSE Join(value.v)

\* the longest run of word characters at the head of s
RECURSIVE WordPrefix(_)
WordPrefix(s) ==
  IF s # <<>> /\ IsWord(Head(s)) THEN <<Head(s)>> \o WordPrefix(Tail(s)) ELSE <<>>

\* extractVariables: expression.match(/\$(\w+)/g), without the "$"
RECURSIVE extractVariables(_)
extractVariables(expression) ==
  IF expression = <<>> THEN <<>>
  ELSE LET w == WordPrefix(Tail(expression))
       IN IF Head(expression) = "$" /\ w # <<>>
            THEN <<w>> \o extractVariables(SubSeq(expression, Len(w) + 2, Len(expression)))
            ELSE extractVariables(Tail(expression))

IsPrefix(pat, s) == Len(pat) <= Len(s) /\ SubSeq(s, 1, Len(pat)) = pat

\* s.replace(new RegExp(pat, 'g'), by) for a pattern without operators
RECURSIVE ReplaceAll(_, _, _)
ReplaceAll(s, pat, by) ==
  IF s = <<>> THEN <<>>
  ELSE IF IsPrefix(pat, s)
    THEN by \o ReplaceAll(SubSeq(s, Len(pat) + 1, Len(s)), pat, by)
    ELSE <<Head(s)>> \o ReplaceAll(Tail(s), pat, by)

Keep(s, P(_)) == SelectSeq(s, P)

\* getVariable for a name without dots
getVariable(variables, name) ==
  IF name \in DOMAIN variables THEN variables[name] ELSE Undefined

\* The tokens of the arithmetic text.  "++" and "--" are update operators,
\* which no operand of the text can take, and a number with a leading zero is
\* an octal literal, which strict mode forbids: both are syntax errors.
RECURSIVE DigitPrefix(_)
DigitPrefix(s) ==
  IF s # <<>> /\ IsDigit(Head(s)) THEN <<Head(s)>> \o DigitPrefix(Tail(s)) ELSE <<>>

RECURSIVE DigitsVal(_)
DigitsVal(ds) ==
  IF ds = <<>> THEN 0 ELSE 10 * DigitsVal(Front(ds)) + DigitVal(ds[Len(ds)])

Tok(k, v) == [k |-> k, v |-> v]

RECURSIVE Tokens(_)
Tokens(s) ==
  IF s = <<>> THEN <<>>
  ELSE LET c == Head(s)
           ds == DigitPrefix(s)
       IN IF ds # <<>>
            THEN (IF Len(ds) > 1 /\ Head(ds) = "0"
                    THEN <<Tok("error", 0)>>
                    ELSE <<Tok("number", DigitsVal(ds))>>)
                 \o Tokens(SubSeq(s, Len(ds) + 1, Len(s)))
          ELSE IF Len(s) > 1 /\ c \in {"+", "-"} /\ s[2] = c
            THEN <<Tok("error", 0)>> \o Tokens(SubSeq(s, 3, Len(s)))
          ELSE IF c = " " THEN Tokens(Tail(s))
          ELSE IF c \in {"+", "-", "*", "(", ")"}
            THEN <<Tok(c, 0)>> \o Tokens(Tail(s))
          ELSE <<Tok("error", 0)>> \o Tokens(Tail(s))

\* The value of the arithmetic text, as the script engine computes it for
\* integers, + - * and parentheses; ok is FALSE for a syntax error.
Parsed(ok, v, rest) == [ok |-> ok, v |-> v, rest |-> rest]
Fail == Parsed(FALSE, 0, <<>>)
IsTok(toks, k) == toks # <<>> /\ Head(toks).k = k

RECURSIVE ParseSum(_), SumRest(_, _), ParseProduct(_), ProductRest(_, _), ParseUnary(_)
ParseUnary(toks) ==
  IF IsTok(toks, "number") THEN Parsed(TRUE, Head(toks).v, Tail(toks))
  ELSE IF IsTok(toks, "-") THEN
    LET u == ParseUnary(Tail(toks)) IN IF u.ok THEN Parsed(TRUE, -u.v, u.rest) ELSE Fail
  ELSE IF IsTok(toks, "+") THEN ParseUnary(Tail(toks))
  ELSE IF IsTok(toks, "(") THEN
    LET e == ParseSum(Tail(toks))
    IN IF e.ok /\ IsTok(e.rest, ")") THEN Parsed(TRUE, e.v, Tail(e.rest)) ELSE Fail
  ELSE Fail
ProductRest(acc, toks) ==
  IF IsTok(toks, "*") THEN
    LET u == ParseUnary(Tail(toks))
    IN IF u.ok THEN ProductRest(acc * u.v, u.rest) ELSE Fail
  ELSE Parsed(TRUE, acc, toks)
ParseProduct(toks) ==
  LET u == ParseUnary(toks) IN IF u.ok THEN ProductRest(u.v, u.rest) ELSE Fail
SumRest(acc, toks) ==
  IF IsTok(toks, "+") \/ IsTok(toks, "-") THEN
    LET u == ParseProduct(Tail(toks))
    IN IF u.ok
         THEN SumRest(IF Head(toks).k = "+" THEN acc + u.v ELSE acc - u.v, u.rest)
         ELSE Fail
  ELSE Parsed(TRUE, acc, toks)
ParseSum(toks) ==
  LET u == ParseProduct(toks) IN IF u.ok THEN SumRest(u.v, u.rest) ELSE Fail

\* Function(`"use strict"; return (${sanitized})`)()
Evaluate(sanitized) ==
  LET e == ParseSum(Tokens(sanitized))
  IN IF e.ok /\ e.rest = <<>> THEN Parsed(TRUE, e.v, <<>>) ELSE Fail

\* the texts Evaluate covers: no division, no decimal point, no "**"
InFragment(text) ==
  /\ \A i \in 1..Len(text) : text[i] \notin {"/", "."}
  /\ \A i \in 1..(Len(text) - 1) : ~(text[i] = "*" /\ text[i + 1] = "*")

Outcome(value, errors) == [value |-> value, errors |-> errors]
\* an entry of this.errors: msg is the fixed text of the message and ref the
\* text interpolated into it (a variable name or the expression)
Err(type, msg, ref, path) == [type |-> type, msg |-> msg, ref |-> ref, path |-> path]

\* the substitution loop of evaluateComplexExpression: the text after the
\* loop, or the name of the first variable that is undefined
RECURSIVE Substitute(_, _, _)
Substitute(variables, names, resolved) ==
  IF names = <<>> THEN [ok |-> TRUE, text |-> resolved]
  ELSE LET value == getVariable(variables, Head(names))
       IN IF value.t = "undefined" THEN [ok |-> FALSE, text |-> Head(names)]
          ELSE Substitute(variables, Tail(names),
                          ReplaceAll(resolved, <<"$">> \o Head(names), ToStr(value)))

\* evaluateComplexExpression that takes an undefined variable as 0 without
\* an entry in the error list
evaluateComplexExpressionSilent(variables, expr, path) ==
  LET sub == Substitute(variables, extractVariables(expr), expr)
      resolved == sub.text
      sanitized == Keep(resolved, IsAllowed)
      result == Evaluate(sanitized)
  IN IF ~sub.ok THEN Outcome(0, <<>>)
     ELSE IF sanitized # Keep(resolved, LAMBDA c : ~IsSpace(c))
       THEN Outcome(0, <<Err("expression", "invalid characters", expr, path)>>)
     ELSE IF ~result.ok
       THEN Outcome(0, <<Err("expression", "evaluation failed", expr, path)>>)
     ELSE Outcome(result.v, <<>>)

evaluateComplexExpression(variables, expr, path) ==
  LET sub == Substitute(variables, extractVariables(expr), expr)
      resolved == sub.text
      sanitized == Keep(resolved, IsAllowed)
      result == Evaluate(sanitized)
  IN IF ~sub.ok
       THEN Outcome(0, <<Err("variable", "Unknown variable", sub.text, path)>>)
     ELSE IF sanitized # Keep(resolved, LAMBDA c : ~IsSpace(c))
       THEN Outcome(0, <<Err("expression", "invalid characters", expr, path)>>)
     ELSE IF ~result.ok
       THEN Outcome(0, <<Err("expression", "evaluation failed", expr, path)>>)
     ELSE Outcome(result.v, <<>>)

\* evaluateExpression
evaluateExpression(variables, expression, path) ==
  IF IsPrefix(<<"$">>, expression) /\ ~IsPrefix(<<"$", "{">>, expression) THEN
    LET varName == Tail(expression)
        resolved == getVariable(variables, varName)
    IN IF resolved.t # "number"
         THEN Outcome(0, <<Err("expression", "is not a number", varName, path)>>)
         ELSE Outcome(resolved.v, <<>>)
  ELSE IF IsPrefix(<<"$", "{">>, expression) /\ expression[Len(expression)] = "}"
    THEN evaluateComplexExpression(variables,
                                   SubSeq(expression, 3, Len(expression) - 1), path)
  ELSE Outcome(0, <<Err("expression", "Invalid expression format", expression, path)>>)

----------------------------------------------------------------------------
\* DSLParser.parse on a validated document.  An ElementState is the sequence
\* of its fields, in the order of Object.entries; a path is the sequence of
\* the segments that the code joins with "." and "[i]".

Field(key, value) == [key |-> key, value |-> value]
Obj(fields) == [t |-> "object", v |-> fields]
Block(type, from, to, keyframes, animations, onRelease) ==
  [type |-> type, from |-> from, to |-> to, keyframes |-> keyframes,
   animations |-> animations, onRelease |-> onRelease, resolved |-> FALSE]
IdxSeg(i) == <<"[0]", "[1]", "[2]", "[3]">>[i]

\* /^\$[\w.]+$|^\$\{.+\}$/
isExpression(value) ==
  /\ value.t = "string"
  /\ LET e == value.v
     IN \/ /\ Len(e) >= 2 /\ e[1] = "$"
           /\ \A i \in 2..Len(e) : IsWord(e[i]) \/ e[i] = "."
        \/ /\ Len(e) >= 4 /\ e[1] = "$" /\ e[2] = "{" /\ e[Len(e)] = "}"
           /\ \A i \in 3..(Len(e) - 1) : e[i] # "\n"

isNumberOrExpression(value) == value.t = "number" \/ isExpression(value)

resolveNumberOrExpression(variables, value, path) ==
  IF value.t = "number" THEN Outcome(value.v, <<>>)
  ELSE evaluateExpression(variables, value.v, path)

\* result[key] = resolved value, and .map / spread: an outcome placed in the
\* result under construction, its errors kept in order
AsNum(r) == Outcome(Num(r.value), r.errors)
AsObj(r) == Outcome(Obj(r.value), r.errors)
AsField(key, r) == Outcome(<<Field(key, r.value)>>, r.errors)
AsItem(r) == Outcome(<<r.value>>, r.errors)
Both(one, rest) == Outcome(one.value \o rest.value, one.errors \o rest.errors)

\* the loop over Object.entries of resolveNestedObject, for an object that
\* is not an array
RECURSIVE resolveNestedObject(_, _, _)
resolveNestedObject(variables, obj, path) ==
  IF obj = <<>> THEN Outcome(<<>>, <<>>)
  ELSE LET f == Head(obj)
           p == Append(path, f.key)
       IN Both(AsField(f.key,
                       IF isNumberOrExpression(f.value)
                         THEN AsNum(resolveNumberOrExpression(variables, f.value, p))
                       ELSE IF f.value.t = "object"
                         THEN AsObj(resolveNestedObject(variables, f.value.v, p))
                       ELSE Outcome(f.value, <<>>)),
               resolveNestedObject(variables, Tail(obj), path))

\* resolveElementState: the same loop over the entries of the state
resolveElementState(variables, elementState, path) ==
  resolveNestedObject(variables, elementState, path)

\* states.map((s, i) => resolveElementState(s, path(i))), from index i on
RECURSIVE resolveStates(_, _, _, _)
resolveStates(variables, states, path, i) ==
  IF i > Len(states) THEN Outcome(<<>>, <<>>)
  ELSE Both(AsItem(resolveElementState(variables, states[i],
                                       path \o <<IdxSeg(i), "state">>)),
            resolveStates(variables, states, path, i + 1))

\* the resolved copy of a block: { ...block, <resolved parts>, _resolved: true }
WithStates(block, from, to) ==
  Outcome([block EXCEPT !.from = from.value, !.to = to.value, !.resolved = TRUE],
          from.errors \o to.errors)
WithKeyframes(block, kfs) ==
  Outcome([block EXCEPT !.keyframes = kfs.value, !.resolved = TRUE], kfs.errors)
WithAnimations(block, as) ==
  Outcome([block EXCEPT !.animations = as.value, !.resolved = TRUE], as.errors)

RECURSIVE parseAnimationBlock(_, _, _), parseBlocks(_, _, _, _)
parseAnimationBlock(variables, block, path) ==
  IF block.type \in {"spring", "transition"} THEN
    WithStates(block,
               IF block.from # <<>>
                 THEN AsItem(resolveElementState(variables, block.from[1],
                                                 Append(path, "from")))
                 ELSE Outcome(<<>>, <<>>),
               resolveElementState(variables, block.to, Append(path, "to")))
  ELSE IF block.type = "keyframes" THEN
    WithKeyframes(block,
                  resolveStates(variables, block.keyframes, Append(path, "keyframes"), 1))
  ELSE IF block.type = "group" THEN
    WithAnimations(block,
                   parseBlocks(variables, block.animations, Append(path, "animations"), 1))
  ELSE Outcome([block EXCEPT !.resolved = TRUE], <<>>)

\* animations.map((anim, i) => parseAnimationBlock(anim, path(i))), from i on
parseBlocks(variables, blocks, path, i) ==
  IF i > Len(blocks) THEN Outcome(<<>>, <<>>)
  ELSE Both(AsItem(parseAnimationBlock(variables, blocks[i], Append(path, IdxSeg(i)))),
            parseBlocks(variables, blocks, path, i + 1))

\* parseElements: one resolveElementState per entry of elements
WithInitial(el, r) == Outcome(<<[el EXCEPT !.initial = r.value]>>, r.errors)
RECURSIVE parseElements(_, _)
parseElements(variables, elements) ==
  IF elements = <<>> THEN Outcome(<<>>, <<>>)
  ELSE Both(WithInitial(Head(elements),
                        resolveElementState(variables, Head(elements).initial,
                                            <<"elements", Head(elements).id, "initial">>)),
            parseElements(variables, Tail(elements)))

\* parseTimeline / parseSequence
WithSequence(sequence, r) ==
  Outcome(<<[sequence EXCEPT !.animations = r.value]>>, r.errors)
RECURSIVE parseTimeline(_, _, _)
parseTimeline(variables, sequences, i) ==
  IF i > Len(sequences) THEN Outcome(<<>>, <<>>)
  ELSE Both(WithSequence(sequences[i],
                         parseBlocks(variables, sequences[i].animations,
                                     <<"timeline", "sequences", IdxSeg(i), "animations">>, 1)),
            parseTimeline(variables, sequences, i + 1))

\* new Parser(input).parse() result from the two resolved parts
ParseResult(elements, timeline) ==
  IF Len(elements.errors \o timeline.errors) > 0
    THEN [success |-> FALSE, animation |-> <<>>,
          errors |-> elements.errors \o timeline.errors]
    ELSE [success |-> TRUE,
          animation |-> <<[elements |-> elements.value, sequences |-> timeline.value]>>,
          errors |-> <<>>]

\* parse that reports the first failure only
parseFirstError(input) ==
  [ParseResult(parseElements(input.variables, input.elements),
               parseTimeline(input.variables, input.sequences, 1))
     EXCEPT !.errors = IF Len(@) > 0 THEN <<Head(@)>> ELSE @]

\* parse, for an input that validateDSL accepts
parse(input) ==
  ParseResult(parseElements(input.variables, input.elements),
              parseTimeline(input.variables, input.sequences, 1))

----------------------------------------------------------------------------
\* The validator (validateDSL, validateDSLString) on a slice of
\* KineticAnimationSchema: version, variables, elements of type box with
\* their initial state, timeline.sequences, and keys the schema does not
\* name.  A value is a record with its type t and its payload v; an object
\* is the sequence of its own entries and a key that is absent reads as
\* undefined.  An issue is what the schema library reports for one
\* violation: the path to the value and a code.

Null == [t |-> "null", v |-> 0]
Bool(b) == [t |-> "boolean", v |-> b]
Issue(path, code) == [path |-> path, code |-> code]
Checked(data, issues) == [data |-> data, issues |-> issues]

IsStr(value, chars) == value.t = "string" /\ value.v = chars
HasKey(obj, key) == \E i \in 1..Len(obj.v) : obj.v[i].key = key
Get(obj, key) ==
  IF HasKey(obj, key)
    THEN obj.v[CHOOSE i \in 1..Len(obj.v) : obj.v[i].key = key].value
    ELSE Undefined

\* NumberOrExpressionSchema
NumberOrExpressionSchema(value, path) ==
  IF value.t = "number" \/ isExpression(value) THEN Checked(value, <<>>)
  ELSE Checked(value, <<Issue(path, "invalid_union")>>)

\* ElementStateSchema: x is a NumberOrExpression when present, other keys
\* pass through
RECURSIVE StateEntries(_, _)
StateEntries(entries, path) ==
  IF entries = <<>> THEN <<>>
  ELSE (IF Head(entries).key = "x" /\ Head(entries).value.t # "undefined"
          THEN NumberOrExpressionSchema(Head(entries).value, Append(path, "x")).issues
          ELSE <<>>)
       \o StateEntries(Tail(entries), path)
ElementStateSchema(value, path) ==
  IF value.t # "object" THEN Checked(value, <<Issue(path, "invalid_type")>>)
  ELSE Checked(value, StateEntries(value.v, path))

\* a default for initial that is not an ElementState
InitialDefaultNull == Null

\* the value that BaseElementSchema gives initial when the input has none
InitialDefault == Obj(<<>>)

\* ElementDefinitionSchema: the union on type, then BaseElementSchema
ElementDefinitionSchema(value, path) ==
  IF value.t # "object" THEN Checked(value, <<Issue(path, "invalid_type")>>)
  ELSE IF ~IsStr(Get(value, "type"), <<"b", "o", "x">>)
    THEN Checked(value, <<Issue(Append(path, "type"), "invalid_union_discriminator")>>)
  ELSE LET initial == IF Get(value, "initial").t = "undefined"
                        THEN Checked(InitialDefault, <<>>)
                        ELSE ElementStateSchema(Get(value, "initial"),
                                                Append(path, "initial"))
           others == SelectSeq(value.v, LAMBDA f : f.key # "initial")
       IN Checked(Obj(<<Field("initial", initial.data)>> \o others), initial.issues)

\* z.record(z.string(), schema): every entry is checked
RECURSIVE ElementEntries(_, _)
ElementEntries(entries, path) ==
  IF entries = <<>> THEN Checked(<<>>, <<>>)
  ELSE LET one == ElementDefinitionSchema(Head(entries).value,
                                          Append(path, Head(entries).key))
           rest == ElementEntries(Tail(entries), path)
       IN Checked(<<Field(Head(entries).key, one.data)>> \o rest.data,
                  one.issues \o rest.issues)

RECURSIVE VariableEntries(_, _)
VariableEntries(entries, path) ==
  IF entries = <<>> THEN <<>>
  ELSE (IF Head(entries).value.t \in {"number", "string", "array"} THEN <<>>
        ELSE <<Issue(Append(path, Head(entries).key), "invalid_union")>>)
       \o VariableEntries(Tail(entries), path)

\* AnimationMetaSchema: an object schema without passthrough, which keeps
\* the keys of its shape, in the shape's order, and strips every other key;
\* name is a string when present
MetaShape == <<"name", "description", "duration", "fps", "viewport">>
AnimationMetaSchema(value, path) ==
  IF value.t # "object" THEN Checked(value, <<Issue(path, "invalid_type")>>)
  ELSE LET named == SelectSeq(MetaShape, LAMBDA k : HasKey(value, k))
       IN Checked(Obj([i \in 1..Len(named) |-> Field(named[i], Get(value, named[i]))]),
                  IF Get(value, "name").t \in {"undefined", "string"} THEN <<>>
                  ELSE <<Issue(Append(path, "name"), "invalid_type")>>)

\* KineticAnimationSchema.safeParse(input)
KineticAnimationSchema(input) ==
  IF input.t # "object" THEN Checked(input, <<Issue(<<>>, "invalid_type")>>)
  ELSE
    LET version == Get(input, "version")
        variables == Get(input, "variables")
        elements == Get(input, "elements")
        timeline == Get(input, "timeline")
        versionIssues ==
          IF IsStr(version, <<"1", ".", "0">>) THEN <<>>
          ELSE <<Issue(<<"version">>, "invalid_literal")>>
        variablesIssues ==
          IF variables.t = "undefined" THEN <<>>
          ELSE IF variables.t # "object" THEN <<Issue(<<"variables">>, "invalid_type")>>
          ELSE VariableEntries(variables.v, <<"variables">>)
        elementsChecked ==
          IF elements.t # "object"
            THEN Checked(elements, <<Issue(<<"elements">>, "invalid_type")>>)
            ELSE LET r == ElementEntries(elements.v, <<"elements">>)
                 IN Checked(Obj(r.data), r.issues)
        metaChecked ==
          IF Get(input, "meta").t = "undefined" THEN Checked(Get(input, "meta"), <<>>)
          ELSE AnimationMetaSchema(Get(input, "meta"), <<"meta">>)
        timelineIssues ==
          IF timeline.t # "object" THEN <<Issue(<<"timeline">>, "invalid_type")>>
          ELSE IF Get(timeline, "sequences").t # "array"
            THEN <<Issue(<<"timeline", "sequences">>, "invalid_type")>>
          ELSE <<>>
        data == [f \in 1..Len(input.v) |->
                   IF input.v[f].key = "elements"
                     THEN Field("elements", elementsChecked.data)
                   ELSE IF input.v[f].key = "meta"
                     THEN Field("meta", metaChecked.data)
                   ELSE input.v[f]]
    IN Checked(Obj(data),
               versionIssues \o metaChecked.issues \o variablesIssues
                 \o elementsChecked.issues \o timelineIssues)

ValidationError(path, code) == [path |-> path, code |-> code]
ValidationResult(valid, data, errors) == [valid |-> valid, data |-> data, errors |-> errors]

\* issues.map(issue => ({ path: issue.path.join('.'), ..., code: issue.code }))
RECURSIVE MapIssues(_)
MapIssues(issues) ==
  IF issues = <<>> THEN <<>>
  ELSE <<ValidationError(Head(issues).path, Head(issues).code)>> \o MapIssues(Tail(issues))

\* validateDSL that returns the first issue only
validateDSLFirstIssue(input) ==
  LET result == KineticAnimationSchema(input)
  IN IF result.issues = <<>> THEN ValidationResult(TRUE, result.data, <<>>)
     ELSE ValidationResult(FALSE, Null, MapIssues(<<Head(result.issues)>>))

validateDSL(input) ==
  LET result == KineticAnimationSchema(input)
  IN IF result.issues = <<>> THEN ValidationResult(TRUE, result.data, <<>>)
     ELSE ValidationResult(FALSE, Null, MapIssues(result.issues))

\* A JSON text is well formed or not; a well-formed text holds a value.
\* JSON.stringify leaves out the entries of objects whose value is undefined.
RECURSIVE Stringified(_)
Stringified(value) ==
  IF value.t # "object" THEN value
  ELSE LET kept == SelectSeq(value.v, LAMBDA f : f.value.t # "undefined")
       IN Obj([i \in 1..Len(kept) |-> Field(kept[i].key, Stringified(kept[i].value))])
JsonText(value) == [t |-> "text", wellformed |-> TRUE, v |-> Stringified(value)]
Malformed == [t |-> "text", wellformed |-> FALSE, v |-> Null]

validateDSLString(jsonString) ==
  IF jsonString.wellformed THEN validateDSL(jsonString.v)
  ELSE ValidationResult(FALSE, Null, <<ValidationError(<<>>, "invalid_json")>>)

----------------------------------------------------------------------------
\* The stylesheet backend (CSSCompiler)

StrongOvershoot == "cubic-bezier(0.68, -0.6, 0.32, 1.6)"
MildOvershoot == "cubic-bezier(0.34, 1.56, 0.64, 1)"
StandardEase == "cubic-bezier(0.4, 0, 0.2, 1)"
DefaultStiffness == 100
DefaultDamping == 10
DefaultMass == 1
OrDefault(value, default) == IF value.t = "undefined" THEN default ELSE value.v

\* damping / (2 * Math.sqrt(km)) < halves / 2 in floating point: the square
\* root of a negative number and 0 / 0 are NaN, which is below nothing, and
\* a division by 0 is an infinity with the sign of damping
RatioBelow(damping, km, halves) ==
  IF km < 0 THEN FALSE
  ELSE IF km = 0 THEN damping < 0
  ELSE damping < 0 \/ damping * damping < halves * halves * km

\* springToCubicBezier with the strong-overshoot curve for every ratio below 1
springToCubicBezierEager(spring) ==
  LET stiffness == OrDefault(spring.stiffness, DefaultStiffness)
      damping == OrDefault(spring.damping, DefaultDamping)
      mass == OrDefault(spring.mass, DefaultMass)
  IN IF RatioBelow(damping, stiffness * mass, 2) THEN StrongOvershoot
     ELSE StandardEase

\* springToCubicBezier for a spring config object
springToCubicBezier(spring) ==
  LET stiffness == OrDefault(spring.stiffness, DefaultStiffness)
      damping == OrDefault(spring.damping, DefaultDamping)
      mass == OrDefault(spring.mass, DefaultMass)
  IN IF RatioBelow(damping, stiffness * mass, 1) THEN StrongOvershoot
     ELSE IF RatioBelow(damping, stiffness * mass, 2) THEN MildOvershoot
     ELSE StandardEase

----------------------------------------------------------------------------
\* Public calls

Called(name) ==
  /\ calls < MaxCalls
  /\ calls' = calls + 1
  /\ op' = name

\* play()
Play ==
  /\ Called("play")
  /\ IF state = "playing"
       THEN UNCHANGED <<state, activeSequences, timeouts, tasks, inflight,
                        applied, runs, ended, nextTimer>>
       ELSE Commit(executeAll([Cur EXCEPT !.state = "playing"],
              SelectSeq(SeqIdx, LAMBDA k : dsl.sequences[k].trigger.type = "mount")))
  /\ sinceStop' = "no"
  /\ UNCHANGED <<dsl, controls, stopsPending, stopMark, resetDone, stopActive, disturbed, now, px>>

\* pause()
Pause ==
  /\ Called("pause")
  /\ IF state # "playing"
       THEN UNCHANGED <<state, timeouts>>
       ELSE state' = "paused" /\ timeouts' = {}
  /\ disturbed' = TRUE
  /\ UNCHANGED <<dsl, controls, activeSequences, tasks, inflight, applied, runs,
                 ended, stopsPending, stopMark, sinceStop, resetDone, stopActive,
                 nextTimer, now, px>>

\* resume()
Resume ==
  /\ Called("resume")
  /\ state' = IF state = "paused" THEN "playing" ELSE state
  /\ UNCHANGED <<dsl, controls, activeSequences, timeouts, tasks, inflight,
                 applied, runs, ended, stopsPending, stopMark, sinceStop,
                 resetDone, stopActive, disturbed, nextTimer, now, px>>

\* resetToInitial(): set() on the handle of every element that has one
resetToInitial(ap) ==
  [h \in Ids |-> IF h \in dsl.elements /\ h \in controls THEN "initial" ELSE ap[h]]

\* stop() up to "await this.resetToInitial()", whose body has no await
StopBegin ==
  /\ Called("stop")
  /\ state' = "stopped"
  /\ activeSequences' = {}
  /\ timeouts' = {}
  /\ applied' = resetToInitial(applied)
  /\ resetDone' = dsl.elements \cap controls
  /\ stopActive' = /\ \E r \in 1..Len(runs) : RunLive(r)
                   /\ \A t \in tasks : ~Ready(t)
  /\ stopsPending' = stopsPending + 1
  /\ stopMark' = Len(runs)
  /\ sinceStop' = "called"
  /\ disturbed' = TRUE
  /\ UNCHANGED <<dsl, controls, tasks, inflight, runs, ended, nextTimer, now, px>>

\* stop() after the await
StopFinish ==
  /\ stopsPending > 0
  /\ stopsPending' = stopsPending - 1
  /\ state' = "idle"
  /\ sinceStop' = IF sinceStop = "called" /\ stopsPending = 1
                    THEN "resolved" ELSE sinceStop
  /\ UNCHANGED <<dsl, controls, activeSequences, timeouts, tasks, inflight,
                 applied, runs, ended, stopMark, resetDone, stopActive, disturbed,
                 op, nextTimer, calls, now, px>>

\* triggerSequence(sequenceId)
TriggerSequence(sequenceId) ==
  /\ Called("triggerSequence")
  /\ LET found == SelectSeq(SeqIdx, LAMBDA k : dsl.sequences[k].id = sequenceId)
     IN IF found = <<>>
          THEN UNCHANGED <<state, activeSequences, timeouts, tasks, inflight,
                           applied, runs, ended, nextTimer>>
          ELSE Commit(executeSequence(Cur, Head(found)))
  /\ sinceStop' = "no"
  /\ UNCHANGED <<dsl, controls, stopsPending, stopMark, resetDone, stopActive, disturbed, now, px>>

\* triggerByType(triggerType, elementId); elementId "" is an absent argument
TriggerByType(triggerType, elementId) ==
  /\ Called("triggerByType")
  /\ LET keep(k) ==
           LET trigger == dsl.sequences[k].trigger
           IN /\ trigger.type = triggerType
              /\ IF elementId # "" /\ trigger.element # ""
                   THEN trigger.element = elementId
                   ELSE TRUE
     IN Commit(executeAll(Cur, SelectSeq(SeqIdx, keep)))
  /\ sinceStop' = "no"
  /\ UNCHANGED <<dsl, controls, stopsPending, stopMark, resetDone, stopActive, disturbed, now, px>>

\* registerControl(elementId, control)
RegisterControl(elementId) ==
  /\ Called("registerControl")
  /\ controls' = controls \cup {elementId}
  /\ disturbed' = TRUE
  /\ UNCHANGED <<dsl, state, activeSequences, timeouts, tasks, inflight, applied,
                 runs, ended, stopsPending, stopMark, sinceStop, resetDone,
                 stopActive, nextTimer, now, px>>

\* unregisterControl(elementId)
UnregisterControl(elementId) ==
  /\ Called("unregisterControl")
  /\ controls' = controls \ {elementId}
  /\ disturbed' = TRUE
  /\ UNCHANGED <<dsl, state, activeSequences, timeouts, tasks, inflight, applied,
                 runs, ended, stopsPending, stopMark, sinceStop, resetDone,
                 stopActive, nextTimer, now, px>>

----------------------------------------------------------------------------
\* Continuations

Internal(st) ==
  /\ Commit(st)
  /\ UNCHANGED <<dsl, controls, stopsPending, stopMark, sinceStop, resetDone,
                 stopActive, disturbed, op, calls, px>>

\* sequence-mode executeGroup after a child (and its stagger delay)
nextChild(st, g) ==
  LET n == Len(BlockOf(st, g.run, g.path).animations)
  IN IF g.idx < n
       THEN executeAnimationBlock(PutTask(st, [g EXCEPT !.idx = @ + 1]),
                                  g.run, Append(g.path, g.idx + 1))
       ELSE PutTask(st, [g EXCEPT !.pc = "fin"])

\* a block has returned: the call awaiting it goes on
BlockReturns(t) ==
  LET st == DropTask(Cur, t)
      pp == Front(t.path)
      g == GetTask(st, t.run, pp, 0)
  IN IF pp = <<>> THEN runAnimations(st, t.run, g.idx + 1)
     ELSE LET gb == BlockOf(st, t.run, pp)
          IN IF gb.mode = "parallel"
               THEN PutTask(st, [g EXCEPT !.pend = @ - 1,
                                         !.pc = IF g.pend = 1 THEN "fin" ELSE @])
             ELSE IF gb.stagger.has
               THEN delay(PutTask(st, [g EXCEPT !.pc = "gstag"]),
                          g.run, g.path, 0, Ms(gb.stagger.each))
             ELSE nextChild(st, g)

\* "await this.executeAnimationBlock(...)" resumes
AwaitBlock ==
  \E t \in tasks :
    /\ t.pc = "fin"
    /\ Internal(BlockReturns(t))
    /\ now' = now

\* executeSequence after "await runAnimations()"
AwaitRunAnimations ==
  \E t \in tasks :
    /\ t.pc = "iterEnd"
    /\ LET repeat == SeqOf(Cur, t.run).repeat
       IN Internal(
            IF ~repeat.has THEN sequenceEnd(Cur, t.run)
            ELSE IF repeat.delay # 0
              THEN delay(PutTask(Cur, [t EXCEPT !.pc = "repDelay"]),
                         t.run, <<>>, 0, Ms(repeat.delay))
            ELSE repeatLoop(PutTask(Cur, [t EXCEPT !.iter = @ + 1]), t.run))
    /\ now' = now

\* the continuation of a call that goes from the offset wait straight to the
\* switch of executeAnimationBlock
TimerContinuesSkipDelay(st, t) ==
  LET r == t.run
      p == t.path
  IN CASE t.pc = "trigDelay" -> afterTrigger(st, r)
       [] t.pc = "offset" -> Dispatch(st, r, p)
       [] t.pc = "delay" -> Dispatch(st, r, p)
       [] t.pc = "stagger" ->
            LET bt == GetTask(st, r, p, 0)
                s1 == PutTask(PutTask(st, [t EXCEPT !.pc = "start"]),
                              [bt EXCEPT !.cnt[t.tgt] = @ + 1])
            IN IssueStart(s1, r, p, t.tgt, BlockOf(st, r, p).target[t.tgt])
       [] t.pc = "dur" -> PutTask(st, [t EXCEPT !.pc = "fin"])
       [] t.pc = "gstag" -> nextChild(st, [t EXCEPT !.pc = "child"])
       [] t.pc = "repDelay" -> repeatLoop(PutTask(st, [t EXCEPT !.iter = @ + 1]), r)

\* the continuation of the call suspended on timer tm
TimerContinues(st, t) ==
  LET r == t.run
      p == t.path
  IN CASE t.pc = "trigDelay" -> afterTrigger(st, r)
       [] t.pc = "offset" ->
            IF BlockOf(st, r, p).delay > 0
              THEN delay(PutTask(st, [t EXCEPT !.pc = "delay"]), r, p, 0,
                         Ms(BlockOf(st, r, p).delay))
              ELSE Dispatch(st, r, p)
       [] t.pc = "delay" -> Dispatch(st, r, p)
       [] t.pc = "stagger" ->
            LET bt == GetTask(st, r, p, 0)
                s1 == PutTask(PutTask(st, [t EXCEPT !.pc = "start"]),
                              [bt EXCEPT !.cnt[t.tgt] = @ + 1])
            IN IssueStart(s1, r, p, t.tgt, BlockOf(st, r, p).target[t.tgt])
       [] t.pc = "dur" -> PutTask(st, [t EXCEPT !.pc = "fin"])
       [] t.pc = "gstag" -> nextChild(st, [t EXCEPT !.pc = "child"])
       [] t.pc = "repDelay" -> repeatLoop(PutTask(st, [t EXCEPT !.iter = @ + 1]), r)

Earliest(tm) ==
  \A u \in timeouts : u.due > tm.due \/ (u.due = tm.due /\ u.id >= tm.id)

\* a timer set by delay() fires
TimerFires ==
  \E tm \in timeouts :
    /\ QueueEmpty
    /\ tm.due <= now
    /\ Earliest(tm)
    /\ Internal(TimerContinues([Cur EXCEPT !.timeouts = @ \ {tm}],
                               GetTask(Cur, tm.run, tm.path, tm.tgt)))
    /\ now' = now

\* the promise of a start() resolves
StartResolves ==
  \E f \in inflight :
    /\ QueueEmpty
    /\ f.due <= now
    /\ LET st == [Cur EXCEPT !.inflight = @ \ {f}]
           t == GetTask(st, f.run, f.path, f.tgt)
           bt == GetTask(st, f.run, f.path, 0)
       IN Internal(
            IF f.tgt = 0 THEN PutTask(st, [t EXCEPT !.pc = "fin"])
            ELSE PutTask(DropTask(st, t),
                         [bt EXCEPT !.pend = @ - 1,
                                    !.pc = IF bt.pend = 1 THEN "fin" ELSE @]))
    /\ now' = now

\* time passes
Tick ==
  /\ QueueEmpty
  /\ now < MaxTime
  /\ timeouts \cup inflight # {}
  /\ \A e \in timeouts : e.due > now
  /\ \A e \in inflight : e.due > now
  /\ now' = now + 1
  /\ UNCHANGED <<dsl, state, controls, activeSequences, timeouts, tasks, inflight,
                 applied, runs, ended, stopsPending, stopMark, sinceStop,
                 resetDone, stopActive, disturbed, op, nextTimer, calls, px>>

----------------------------------------------------------------------------
\* The pure functions, applied to inputs drawn from bounded sets

MaxTotal == 5
StaggerEach == {-3, 0, 1, 100}
StaggerFrom == {"none", "first", "last", "center", "edges", "number"}

StaggerInputs ==
  {[pc |-> "stagger", index |-> i, total |-> n, stagger |-> Stagger(e, f, o),
    result |-> 0] :
     i \in 0..(MaxTotal - 1), n \in 1..MaxTotal, e \in StaggerEach,
     f \in StaggerFrom, o \in 0..(MaxTotal - 1)}

ComputeStagger ==
  /\ px.pc = "stagger"
  /\ px' = [px EXCEPT !.pc = "staggerDone",
                      !.result = calculateStaggerDelay(px.index, px.total, px.stagger)]
  /\ UNCHANGED ivars

ExprNames == {<<"a">>, <<"b">>, <<"x">>, <<"x", "1">>}
ExprValues == {-2, 3, 10}

\* the field value "${$a + $b}", or "${$a+$b}" when not spaced
SumExpr(a, b, spaced) ==
  <<"$", "{", "$">> \o a
    \o (IF spaced THEN <<" ", "+", " ", "$">> ELSE <<"+", "$">>) \o b \o <<"}">>

\* a field to resolve: the variables of the document, the text of the field
\* and how the text was built (kind; a and b are the names it uses)
ExprInput(kind, vs, a, b, sp, expression) ==
  [pc |-> "expr", kind |-> kind, variables |-> vs, a |-> a, b |-> b, spaced |-> sp,
   expression |-> expression, value |-> 0, errors |-> <<>>]

ExprInputs ==
  {ExprInput("sum", vs, a, b, sp, SumExpr(a, b, sp)) :
     vs \in [ExprNames -> {Num(v) : v \in ExprValues}],
     a \in ExprNames, b \in ExprNames, sp \in BOOLEAN}

Braced(text) == <<"$", "{">> \o text \o <<"}">>

\* the texts that reference the undefined name u, alone or next to the
\* defined name d
UndefExprs(u, d) ==
  { <<"$">> \o u,
    Braced(<<"$">> \o u),
    Braced(<<"$">> \o u \o <<"+", "$">> \o d),
    Braced(<<"$">> \o d \o <<"+", "$">> \o u),
    Braced(<<"$">> \o u \o <<"*", "$">> \o u) }

UndefInputs ==
  UNION {UNION {{ExprInput("undef", vs, u, d, FALSE, e) :
                   vs \in [ExprNames \ {u} -> {Num(v) : v \in ExprValues}],
                   e \in UndefExprs(u, d)} : d \in ExprNames \ {u}} : u \in ExprNames}

\* arithmetic texts without variables, of up to MaxText characters
MaxText == 3
TextChars == {"1", "2", "+", "*", "(", ")", " ", "\t", "a", "&"}
TextInputs ==
  UNION {{ExprInput("text", <<>>, text, <<>>, FALSE, Braced(text)) :
            text \in [1..n -> TextChars]} : n \in 1..MaxText}

\* values of variables that are not numbers: strings, a color string and
\* arrays of numbers
NonNumValues ==
  << Str(<<"5">>), Str(<<"1", "0">>), Str(<<"a", "b">>), Str(<<"#", "f", "f", "f">>),
     Str(<<>>), Arr(<<1>>), Arr(<<1, 2>>), Arr(<<>>) >>

\* braced texts that reference the variable a, alone or next to the number b
NonNumExprs ==
  { Braced(<<"$", "a">>), Braced(<<"$", "a", "+", "$", "b">>),
    Braced(<<"$", "b", "*", "$", "a">>) }

NonNumInput(i, bv, e) ==
  ExprInput("nonnum", (<<"a">> :> NonNumValues[i]) @@ (<<"b">> :> Num(bv)),
            <<"a">>, <<"b">>, FALSE, e)

\* the values a numeric slot of a document takes: a literal, expressions
\* that resolve, and expressions that reference the undefined variable y
SlotValues ==
  << Num(5), Str(<<"$", "a">>), Str(<<"$", "y">>),
     Str(Braced(<<"$", "a", "*", "$", "b">>)), Str(Braced(<<"$", "a", "+", "$", "y">>)) >>
NoState == <<>>
ColorField == Field("backgroundColor", Str(<<"#", "f", "f", "f">>))

\* a validated document with five numeric slots: an element's initial state
\* and a nested object of it, a spring block, a keyframes block inside a
\* group, and the onRelease block of a drag block
Document(v) ==
  [variables |-> (<<"a">> :> Num(3)) @@ (<<"b">> :> Num(10)),
   elements |->
     << [id |-> "card",
         initial |-> << ColorField, Field("x", SlotValues[v[1]]),
                        Field("pathMotion", Obj(<<Field("progress", SlotValues[v[2]])>>)) >>] >>,
   sequences |->
     << [animations |->
           << Block("spring", <<>>, <<ColorField, Field("x", SlotValues[v[3]])>>,
                    <<>>, <<>>, <<>>),
              Block("group", <<>>, NoState, <<>>,
                    << Block("keyframes", <<>>, NoState,
                             << <<Field("y", SlotValues[v[4]])>> >>, <<>>, <<>>) >>,
                    <<>>),
              Block("drag", <<>>, NoState, <<>>, <<>>,
                    << Block("transition", << <<Field("y", Num(0))>> >>,
                             <<Field("x", SlotValues[v[5]])>>, <<>>, <<>>, <<>>) >>) >>] >>]

NoResult == [success |-> FALSE, animation |-> <<>>, errors |-> <<>>]
DocInput(v) ==
  [pc |-> "doc", kind |-> "doc", slots |-> v, input |-> Document(v), result |-> NoResult]

\* parseDSL(input)
ParseDocument ==
  /\ px.pc = "doc"
  /\ px' = [px EXCEPT !.pc = "docDone", !.result = parse(px.input)]
  /\ UNCHANGED ivars

\* the inputs of the validator: for each key of the slice the values it
\* takes; Absent marks a key that the input does not have
Absent == [t |-> "absent", v |-> 0]
BoxType == Field("type", Str(<<"b", "o", "x">>))
Card(entries) == Obj(<<Field("card", Obj(entries))>>)
VersionValues == << Str(<<"1", ".", "0">>), Str(<<"2", ".", "0">>), Absent >>
VariablesValues ==
  << Absent, Undefined, Obj(<<Field("w", Num(3))>>), Obj(<<Field("w", Bool(TRUE))>>) >>
ElementsValues ==
  << Absent,
     Card(<<BoxType>>),
     Card(<<BoxType, Field("initial", Obj(<<Field("x", Num(5)), Field("hue", Undefined)>>))>>),
     Card(<<BoxType, Field("initial", Obj(<<Field("x", Str(<<"a", "b", "c">>))>>))>>),
     Card(<<Field("type", Str(<<"h", "e", "x">>))>>) >>
TimelineValues ==
  << Absent, Obj(<<Field("sequences", Arr(<<>>))>>),
     Obj(<<Field("sequences", Str(<<"n", "o">>))>>) >>
ExtraValues == << Absent, Undefined, Str(<<"h", "i">>) >>
MetaValues ==
  << Absent, Obj(<<Field("name", Str(<<"m">>))>>),
     Obj(<<Field("tag", Num(7)), Field("name", Str(<<"m">>))>>),
     Obj(<<Field("name", Num(1))>>) >>
SliceKeys == <<"version", "variables", "elements", "timeline", "note", "meta">>
SliceValues ==
  <<VersionValues, VariablesValues, ElementsValues, TimelineValues, ExtraValues,
    MetaValues>>

\* the object that has, for each key, the value chosen by c
ValidatorInput(c) ==
  LET all == [k \in 1..Len(SliceKeys) |-> Field(SliceKeys[k], SliceValues[k][c[k]])]
  IN Obj(SelectSeq(all, LAMBDA f : f.value.t # "absent"))

ValInput(form, c) ==
  [pc |-> "val", kind |-> form, slots |-> c,
   input |-> IF form = "object" THEN ValidatorInput(c)
             ELSE IF form = "string" THEN JsonText(ValidatorInput(c))
             ELSE Malformed,
   result |-> ValidationResult(FALSE, Null, <<>>),
   again |-> ValidationResult(FALSE, Null, <<>>)]

\* validateDSL(input) or validateDSLString(jsonString)
Validate ==
  /\ px.pc = "val"
  /\ px' = [px EXCEPT !.pc = "valDone",
                      !.result = IF px.kind = "object" THEN validateDSL(px.input)
                                 ELSE validateDSLString(px.input)]
  /\ UNCHANGED ivars

\* validateDSLString(JSON.stringify(result.data)) for an accepted input
Revalidate ==
  /\ px.pc = "valDone" /\ px.result.valid
  /\ px' = [px EXCEPT !.pc = "roundDone",
                      !.again = validateDSLString(JsonText(px.result.data))]
  /\ UNCHANGED ivars

\* spring configs: every field is a number or is left out
SpringStiffness == <<Undefined, Num(0), Num(1), Num(25), Num(100), Num(400)>>
SpringDamping ==
  <<Undefined, Num(-30), Num(0), Num(5), Num(10), Num(19), Num(20), Num(40)>>
SpringMass == <<Undefined, Num(1), Num(4)>>
SpringInput(i, j, k) ==
  [pc |-> "spring", kind |-> "spring",
   spring |-> [stiffness |-> SpringStiffness[i], damping |-> SpringDamping[j],
               mass |-> SpringMass[k]],
   easing |-> ""]

\* Spring presets and the three consumers of a spring config.  A config is
\* its preset name ("" when it names none) and its stiffness, damping and
\* mass, each a number or undefined; it carries no duration.
SPRING_PRESETS ==
  [gentle |-> [stiffness |-> 120, damping |-> 14, mass |-> 1],
   wobbly |-> [stiffness |-> 180, damping |-> 12, mass |-> 1],
   stiff |-> [stiffness |-> 210, damping |-> 20, mass |-> 1],
   slow |-> [stiffness |-> 280, damping |-> 60, mass |-> 1],
   molasses |-> [stiffness |-> 280, damping |-> 120, mass |-> 1],
   bouncy |-> [stiffness |-> 400, damping |-> 10, mass |-> 1]]

Triple(stiffness, damping, mass) ==
  [stiffness |-> stiffness, damping |-> damping, mass |-> mass]

\* DSLParser.resolveSpringConfig
resolveSpringConfig(config) ==
  IF config.preset # ""
    THEN Triple(OrDefault(config.stiffness, SPRING_PRESETS[config.preset].stiffness),
                OrDefault(config.damping, SPRING_PRESETS[config.preset].damping),
                OrDefault(config.mass, SPRING_PRESETS[config.preset].mass))
    ELSE Triple(OrDefault(config.stiffness, -1), OrDefault(config.damping, -1),
                OrDefault(config.mass, -1))

\* the interpreter's convertSpringConfig
convertSpringConfig(config) ==
  IF config.preset # ""
    THEN Triple(OrDefault(config.stiffness, SPRING_PRESETS[config.preset].stiffness),
                OrDefault(config.damping, SPRING_PRESETS[config.preset].damping),
                OrDefault(config.mass, SPRING_PRESETS[config.preset].mass))
    ELSE Triple(OrDefault(config.stiffness, DefaultStiffness),
                OrDefault(config.damping, DefaultDamping),
                OrDefault(config.mass, DefaultMass))

\* the component backend's springToCode: the numbers written into the code
springToCode(config) ==
  IF config.preset # ""
    THEN Triple(SPRING_PRESETS[config.preset].stiffness,
                SPRING_PRESETS[config.preset].damping,
                SPRING_PRESETS[config.preset].mass)
    ELSE Triple(OrDefault(config.stiffness, -1), OrDefault(config.damping, -1),
                OrDefault(config.mass, -1))

PresetNames == <<"", "gentle", "wobbly", "stiff", "slow", "molasses", "bouncy">>
PresetStiffness == <<Undefined, Num(0), Num(300)>>
PresetDamping == <<Undefined, Num(5)>>
PresetMass == <<Undefined, Num(2)>>
NoTriple == Triple(-2, -2, -2)
PresetInput(n, i, j, k) ==
  [pc |-> "preset", kind |-> "preset",
   config |-> [preset |-> PresetNames[n], stiffness |-> PresetStiffness[i],
               damping |-> PresetDamping[j], mass |-> PresetMass[k]],
   resolved |-> NoTriple, converted |-> NoTriple, code |-> NoTriple]

\* spring: this.resolveSpringConfig(block.spring, path) in the resolver
ResolveSpring ==
  /\ px.pc = "preset" /\ px.resolved = NoTriple
  /\ px' = [px EXCEPT !.resolved = resolveSpringConfig(px.config)]
  /\ UNCHANGED ivars

\* const transition = convertSpringConfig(block.spring) in the interpreter
ConvertSpring ==
  /\ px.pc = "preset" /\ px.converted = NoTriple
  /\ px' = [px EXCEPT !.converted = convertSpringConfig(px.config)]
  /\ UNCHANGED ivars

\* const springCode = springToCode(anim.spring) in the component backend
SpringCode ==
  /\ px.pc = "preset" /\ px.code = NoTriple
  /\ px' = [px EXCEPT !.code = springToCode(px.config)]
  /\ UNCHANGED ivars

\* easing = springToCubicBezier(anim.spring)
SelectCurve ==
  /\ px.pc = "spring"
  /\ px' = [px EXCEPT !.pc = "springDone", !.easing = springToCubicBezier(px.spring)]
  /\ UNCHANGED ivars

\* resolveNumberOrExpression on a field that holds an expression
ResolveField ==
  /\ px.pc = "expr"
  /\ LET out == evaluateExpression(px.variables, px.expression, <<"field">>)
     IN px' = [px EXCEPT !.pc = "exprDone", !.value = out.value,
                         !.errors = out.errors]
  /\ UNCHANGED ivars

----------------------------------------------------------------------------
\* Code generation backends: CSSCompiler and FramerMotionCompiler.
\* Generated code is a sequence of lines, a line a sequence of strings.

\* an animation block as the backends read it; target "" means no target,
\* blocks of type transition and spring carry a non-empty `to` state
Anim(type, target, animations) ==
  [type |-> type, target |-> target, animations |-> animations]
TimelineSequence(trigger, animations) ==
  [trigger |-> trigger, animations |-> animations, repeat |-> FALSE]
HasTo(anim) == anim.type \in {"transition", "spring"}

\* jsOnlyTriggers[t], pushed when it is defined
jsOnlyTriggers(t) ==
  CASE t = "scroll" -> <<"Scroll animations require JavaScript">>
    [] t = "inView" ->
         <<"InView detection requires JavaScript (Intersection Observer)">>
    [] t = "drag" -> <<"Drag interactions require JavaScript">>
    [] t = "audio" -> <<"Audio sync requires JavaScript (Web Audio API)">>
    [] t = "state" -> <<"State machines require JavaScript">>
    [] t = "custom" -> <<"Custom triggers require JavaScript">>
    [] OTHER -> <<>>

\* the loop over seq.animations in checkJSFeatures
RECURSIVE AnimationWarnings(_)
AnimationWarnings(animations) ==
  IF Len(animations) = 0 THEN <<>>
  ELSE LET anim == Head(animations)
       IN (IF anim.type = "morph"
             THEN <<"SVG morphing requires JavaScript">> ELSE <<>>)
          \o (IF anim.type = "particles"
                THEN <<"Particles require JavaScript">> ELSE <<>>)
          \o (IF anim.type = "matchCut"
                THEN <<"Match cuts require JavaScript">> ELSE <<>>)
          \o AnimationWarnings(Tail(animations))

\* the loop over the sequences in checkJSFeatures
RECURSIVE SequenceWarnings(_)
SequenceWarnings(sequences) ==
  IF Len(sequences) = 0 THEN <<>>
  ELSE jsOnlyTriggers(Head(sequences).trigger)
       \o AnimationWarnings(Head(sequences).animations)
       \o SequenceWarnings(Tail(sequences))

\* checkJSFeatures: the value of this.warnings after the call
checkJSFeatures(self) ==
  self.warnings
  \o SequenceWarnings(self.dsl.sequences)
  \o (IF self.dsl.stateMachine
        THEN <<"State machines require JavaScript">> ELSE <<>>)
  \o (IF self.dsl.audio THEN <<"Audio sync requires JavaScript">> ELSE <<>>)

\* generateKeyframe: the rule pushed to this.keyframes; its name is
\* prefix-elementId-trigger
generateKeyframe(self, elementId, trigger) ==
  <<"@keyframes", self.prefix, elementId, trigger>>

\* findAnimation: the first block with this target in a sequence with this
\* trigger; a keyframes block pushes its rule to this.keyframes
findAnimation(self, elementId, trigger) ==
  LET seqs == self.dsl.sequences
      hits == {h \in UNION {{<<i, j>> : j \in 1..Len(seqs[i].animations)} :
                            i \in 1..Len(seqs)} :
                 /\ seqs[h[1]].trigger = trigger
                 /\ seqs[h[1]].animations[h[2]].target = elementId}
      first == CHOOSE h \in hits :
                 \A g \in hits : h[1] < g[1] \/ (h[1] = g[1] /\ h[2] <= g[2])
  IN IF hits = {} THEN [found |-> FALSE, keyframeName |-> <<>>, pushed |-> <<>>]
     ELSE IF seqs[first[1]].animations[first[2]].type = "keyframes"
       THEN [found |-> TRUE, keyframeName |-> <<self.prefix, elementId, trigger>>,
             pushed |-> <<generateKeyframe(self, elementId, trigger)>>]
       ELSE [found |-> TRUE, keyframeName |-> <<>>, pushed |-> <<>>]

\* buildTransitions: non-null when a pseudo-class sequence changes a property
\* of the element
buildTransitions(self, elementId) ==
  \E i \in 1..Len(self.dsl.sequences) :
    /\ self.dsl.sequences[i].trigger \in {"hover", "hoverEnd", "focus", "blur", "tap"}
    /\ \E j \in 1..Len(self.dsl.sequences[i].animations) :
         LET anim == self.dsl.sequences[i].animations[j]
         IN anim.target = elementId /\ anim.type # "keyframes" /\ HasTo(anim)

\* generateElement: the lines of one element and the rules it pushed
generateElement(self, id) ==
  LET hover == findAnimation(self, id, "hover")
      focus == findAnimation(self, id, "focus")
      tap == findAnimation(self, id, "tap")
      mount == findAnimation(self, id, "mount")
      Rule(found, pseudo) ==
        IF found THEN <<<<".", self.prefix, id, pseudo, "{">>, <<"}">>>> ELSE <<>>
  IN [lines |->
        (IF self.includeComments THEN <<<<"/*", id, "*/">>>> ELSE <<>>)
        \o <<<<".", self.prefix, id, "{">>>>
        \o (IF buildTransitions(self, id) THEN <<<<"transition">>>> ELSE <<>>)
        \o (IF Len(mount.keyframeName) > 0
              THEN <<<<"animation">> \o mount.keyframeName>> ELSE <<>>)
        \o <<<<"}">>>>
        \o Rule(hover.found, ":hover")
        \o Rule(focus.found, ":focus")
        \o Rule(tap.found, ":active"),
      pushed |-> hover.pushed \o focus.pushed \o tap.pushed \o mount.pushed]

\* the loop over Object.entries(this.dsl.elements) in compile
RECURSIVE generateElements(_, _)
generateElements(self, ids) ==
  IF Len(ids) = 0 THEN [lines |-> <<>>, pushed |-> <<>>]
  ELSE LET one == generateElement(self, Head(ids))
           rest == generateElements(self, Tail(ids))
       IN [lines |-> one.lines \o rest.lines, pushed |-> one.pushed \o rest.pushed]

\* a warning as a line of the closing comment
RECURSIVE WarningLines(_)
WarningLines(warnings) ==
  IF Len(warnings) = 0 THEN <<>>
  ELSE <<<<" * - ", Head(warnings)>>>> \o WarningLines(Tail(warnings))

\* the output record of either backend
CompilerOutput(via, code, language, warnings, dependencies) ==
  [via |-> via, code |-> code, language |-> language, warnings |-> warnings,
   dependencies |-> dependencies]

\* CSSCompiler.compile: the output and the instance fields after the call
CSSCompilerCompile(self, via) ==
  LET warnings == checkJSFeatures(self)
      generated == generateElements(self, self.dsl.elements)
      keyframes == self.keyframes \o generated.pushed
      code ==
        (IF self.includeComments
           THEN <<<<"/* Generated by Kinetic CSS Compiler */">>>> ELSE <<>>)
        \o generated.lines
        \o (IF Len(keyframes) > 0
              THEN <<<<"/* Keyframe Animations */">>>> \o keyframes ELSE <<>>)
        \o (IF Len(warnings) > 0 /\ self.includeComments
              THEN <<<<"/*">>, <<" * NOTE: Some features require JavaScript:">>>>
                   \o WarningLines(warnings) \o <<<<" */">>>>
              ELSE <<>>)
  IN [output |-> CompilerOutput(via, code, "css", warnings, <<>>),
      warnings |-> warnings, keyframes |-> keyframes]

\* new CSSCompiler(dsl, options) and new FramerMotionCompiler(dsl, options):
\* the fields of a fresh instance
NewCompiler(dsl_, includeComments) ==
  [dsl |-> dsl_, prefix |-> "kinetic", includeComments |-> includeComments,
   warnings |-> <<>>, keyframes |-> <<>>, imports |-> {"motion"}]

\* compileToCSS(dsl, options)
compileToCSS(dsl_, includeComments) ==
  CSSCompilerCompile(NewCompiler(dsl_, includeComments), "compileToCSS").output

\* analyzeSequence: the imports one sequence adds
analyzeSequence(sequence) ==
  (IF sequence.trigger = "inView" THEN {"useInView"} ELSE {})
  \cup (IF sequence.trigger = "scroll" THEN {"useScroll", "useTransform"} ELSE {})
  \cup (IF \E j \in 1..Len(sequence.animations) :
             sequence.animations[j].type = "group" \/ sequence.repeat
          THEN {"useAnimation"} ELSE {})

\* analyzeSequences
analyzeSequences(sequences) ==
  UNION {analyzeSequence(sequences[i]) : i \in 1..Len(sequences)}

\* Array.from(this.imports).sort()
ImportOrder ==
  <<"motion", "useAnimation", "useInView", "useScroll", "useTransform">>
generateImports(imports, effects, hooks) ==
  <<<<"import">> \o SelectSeq(ImportOrder, LAMBDA name : name \in imports)>>
  \o (IF Len(effects) > 0 \/ \E k \in 1..Len(hooks) : hooks[k] = "useEffect"
        THEN <<<<"import { useEffect } from 'react';">>>> ELSE <<>>)

\* generateAnimationCode and generateSequenceCode, one line per animated target
RECURSIVE generateSequenceCode(_)
generateAnimationCode(anim) ==
  IF anim.type \in {"spring", "transition"}
    THEN <<<<"await controls", anim.target, ".start">>>>
  ELSE IF anim.type = "group" THEN generateSequenceCode(anim.animations)
  ELSE <<<<"// TODO:", anim.type, "animation">>>>
generateSequenceCode(animations) ==
  IF Len(animations) = 0 THEN <<>>
  ELSE generateAnimationCode(Head(animations))
       \o generateSequenceCode(Tail(animations))

\* the targets of the top-level blocks, in order of first occurrence
RECURSIVE TargetsOf(_, _)
TargetsOf(animations, seen) ==
  IF Len(animations) = 0 THEN seen
  ELSE LET t == Head(animations).target
       IN TargetsOf(Tail(animations),
                    IF t = "" \/ \E k \in 1..Len(seen) : seen[k] = t
                      THEN seen ELSE Append(seen, t))
RECURSIVE elementsNeedingControls(_, _)
elementsNeedingControls(sequences, seen) ==
  IF Len(sequences) = 0 THEN seen
  ELSE elementsNeedingControls(Tail(sequences),
                               TargetsOf(Head(sequences).animations, seen))

\* the useEffect body for the mount sequences
RECURSIVE MountCode(_)
MountCode(sequences) ==
  IF Len(sequences) = 0 THEN <<>>
  ELSE (IF Head(sequences).trigger = "mount"
          THEN generateSequenceCode(Head(sequences).animations) ELSE <<>>)
       \o MountCode(Tail(sequences))

\* generateElementJSX for each element
RECURSIVE generateElementsJSX(_, _, _)
generateElementsJSX(sequences, imports, ids) ==
  IF Len(ids) = 0 THEN <<>>
  ELSE LET While(trigger, prop) ==
             IF \E i \in 1..Len(sequences) :
                  /\ sequences[i].trigger = trigger
                  /\ \A k \in 1..(i - 1) : sequences[k].trigger # trigger
                  /\ Len(sequences[i].animations) > 0
                  /\ HasTo(sequences[i].animations[1])
               THEN <<prop>> ELSE <<>>
       IN <<<<"<motion.div", Head(ids), "initial">>
            \o (IF "useAnimation" \in imports THEN <<"animate">> ELSE <<>>)
            \o While("hover", "whileHover") \o While("tap", "whileTap")>>
          \o generateElementsJSX(sequences, imports, Tail(ids))

\* generateComponentBody
generateComponentBody(dsl_, imports) ==
  LET needing == elementsNeedingControls(dsl_.sequences, <<>>)
  IN (IF "useAnimation" \in imports
        THEN [k \in 1..Len(needing) |-> <<"const controls", needing[k]>>]
        ELSE <<>>)
     \o (IF \E i \in 1..Len(dsl_.sequences) : dsl_.sequences[i].trigger = "mount"
           THEN <<<<"useEffect(() => {">>>> \o MountCode(dsl_.sequences)
                \o <<<<"}, []);">>>>
           ELSE <<>>)
     \o <<<<"return (">>>>
     \o generateElementsJSX(dsl_.sequences, imports, dsl_.elements)
     \o <<<<");">>>>

\* FramerMotionCompiler.compile: the fields are reset, then analysed again
FramerMotionCompilerCompile(self, via) ==
  LET imports == {"motion"} \cup analyzeSequences(self.dsl.sequences)
      hooks == <<>>      \* this.hooks = [], and nothing is pushed to it
      effects == <<>>    \* this.effects = [], and nothing is pushed to it
      code == <<<<"'use client';">>>> \o generateImports(imports, effects, hooks)
              \o <<<<"export default function", "KineticAnimation">>>>
              \o generateComponentBody(self.dsl, imports)
              \o <<<<"}">>>>
  IN [output |-> CompilerOutput(via, code, "tsx", <<>>,
                                <<"framer-motion", "react">>),
      imports |-> imports]

\* compileToFramerMotion(dsl, options)
compileToFramerMotion(dsl_) ==
  FramerMotionCompilerCompile(NewCompiler(dsl_, TRUE), "compileToFramerMotion").output

\* Documents given to the backends
MaxBlocks == 2
MaxCompiles == 2
TriggerTypes ==
  <<"mount", "hover", "tap", "scroll", "inView", "drag", "audio", "custom", "state">>
BlockPool ==
  <<Anim("transition", "a", <<>>),
    Anim("keyframes", "a", <<>>),
    Anim("morph", "a", <<>>),
    Anim("particles", "", <<>>),
    Anim("matchCut", "", <<>>),
    Anim("group", "", <<Anim("transition", "a", <<>>)>>),
    Anim("group", "", <<Anim("particles", "", <<>>)>>),
    Anim("group", "", <<Anim("group", "", <<Anim("morph", "a", <<>>)>>)>>)>>
MountKeyframes == TimelineSequence("mount", <<Anim("keyframes", "b", <<>>)>>)
CompilerDocument(t, blocks, second, stateMachine, audio, repeat) ==
  [elements |-> <<"a", "b">>,
   sequences |-> <<[TimelineSequence(TriggerTypes[t],
                                     [k \in 1..Len(blocks) |-> BlockPool[blocks[k]]])
                      EXCEPT !.repeat = repeat]>>
                 \o (IF second THEN <<MountKeyframes>> ELSE <<>>),
   stateMachine |-> stateMachine, audio |-> audio]
CompileInput(backend, dsl_, includeComments) ==
  [pc |-> "compile", kind |-> backend, self |-> NewCompiler(dsl_, includeComments),
   outputs |-> <<>>]

\* const out = compileToCSS(dsl, options)
CompileToCSS ==
  /\ px.pc = "compile" /\ px.kind = "css" /\ Len(px.outputs) < MaxCompiles
  /\ px' = [px EXCEPT !.outputs =
              Append(@, compileToCSS(px.self.dsl, px.self.includeComments))]
  /\ UNCHANGED ivars

\* const out = compiler.compile() on the one CSSCompiler instance
CSSCompile ==
  /\ px.pc = "compile" /\ px.kind = "css" /\ Len(px.outputs) < MaxCompiles
  /\ LET r == CSSCompilerCompile(px.self, "CSSCompiler.compile")
     IN px' = [px EXCEPT !.outputs = Append(@, r.output),
                         !.self.warnings = r.warnings,
                         !.self.keyframes = r.keyframes]
  /\ UNCHANGED ivars

\* const out = compileToFramerMotion(dsl, options)
CompileToFramerMotion ==
  /\ px.pc = "compile" /\ px.kind = "framer" /\ Len(px.outputs) < MaxCompiles
  /\ px' = [px EXCEPT !.outputs = Append(@, compileToFramerMotion(px.self.dsl))]
  /\ UNCHANGED ivars

\* const out = compiler.compile() on the one FramerMotionCompiler instance
FramerCompile ==
  /\ px.pc = "compile" /\ px.kind = "framer" /\ Len(px.outputs) < MaxCompiles
  /\ LET r == FramerMotionCompilerCompile(px.self, "FramerMotionCompiler.compile")
     IN px' = [px EXCEPT !.outputs = Append(@, r.output),
                         !.self.imports = r.imports]
  /\ UNCHANGED ivars

----------------------------------------------------------------------------

SequenceIds == {dsl.sequences[k].id : k \in 1..Len(dsl.sequences)} \ {""}

InitInterpreter ==
  /\ state = "idle"
  /\ controls = dsl.elements
  /\ activeSequences = {}
  /\ timeouts = {}
  /\ tasks = {}
  /\ inflight = {}
  /\ applied = [h \in Ids |-> "none"]
  /\ runs = <<>>
  /\ ended = {}
  /\ stopsPending = 0
  /\ stopMark = 0
  /\ sinceStop = "no"
  /\ resetDone = {}
  /\ stopActive = FALSE
  /\ disturbed = FALSE
  /\ op = "none"
  /\ nextTimer = 1
  /\ calls = 0
  /\ now = 0

Init == dsl \in Docs /\ InitInterpreter /\ px = PxIdle

Next ==
  \/ Play
  \/ Pause
  \/ Resume
  \/ StopBegin
  \/ StopFinish
  \/ \E sequenceId \in SequenceIds : TriggerSequence(sequenceId)
  \/ \E elementId \in {"", "a"} : TriggerByType("tap", elementId)
  \/ \E elementId \in dsl.elements : RegisterControl(elementId)
  \/ \E elementId \in dsl.elements : UnregisterControl(elementId)
  \/ AwaitBlock
  \/ AwaitRunAnimations
  \/ TimerFires
  \/ StartResolves
  \/ Tick

Spec == Init /\ [][Next]_vars

InitStagger == dsl = DocBasic /\ InitInterpreter /\ px \in StaggerInputs
SpecStagger == InitStagger /\ [][ComputeStagger]_vars

InitParser ==
  /\ dsl = DocBasic /\ InitInterpreter
  /\ \/ px \in ExprInputs
     \/ px \in UndefInputs
     \/ px \in TextInputs
     \/ \E i \in 1..Len(NonNumValues), bv \in ExprValues, e \in NonNumExprs :
          px = NonNumInput(i, bv, e)
     \/ \E v \in [1..5 -> 1..Len(SlotValues)] : px = DocInput(v)
InitValidator ==
  /\ dsl = DocBasic /\ InitInterpreter
  /\ \E form \in {"object", "string", "malformed"} :
       \E c \in [1..Len(SliceKeys) -> 1..5] :
         /\ \A k \in 1..Len(SliceKeys) : c[k] <= Len(SliceValues[k])
         /\ px = ValInput(form, c)
NextValidator == Validate \/ Revalidate
SpecValidator == InitValidator /\ [][NextValidator]_vars

InitSpring ==
  /\ dsl = DocBasic /\ InitInterpreter
  /\ \E i \in 1..Len(SpringStiffness), j \in 1..Len(SpringDamping),
        k \in 1..Len(SpringMass) : px = SpringInput(i, j, k)
SpecSpring == InitSpring /\ [][SelectCurve]_vars

InitPreset ==
  /\ dsl = DocBasic /\ InitInterpreter
  /\ \E n \in 1..Len(PresetNames), i \in 1..Len(PresetStiffness),
        j \in 1..Len(PresetDamping), k \in 1..Len(PresetMass) :
       px = PresetInput(n, i, j, k)
NextPreset == ResolveSpring \/ ConvertSpring \/ SpringCode
SpecPreset == InitPreset /\ [][NextPreset]_vars

InitCompile ==
  /\ dsl = DocBasic /\ InitInterpreter
  /\ \E backend \in {"css", "framer"}, t \in 1..Len(TriggerTypes),
        n \in 0..MaxBlocks, second \in BOOLEAN, stateMachine \in BOOLEAN,
        audio \in BOOLEAN, includeComments \in BOOLEAN, repeat \in BOOLEAN :
       \E blocks \in [1..n -> 1..Len(BlockPool)] :
         /\ backend = "framer" => includeComments
         /\ backend = "css" => ~repeat
         /\ px = CompileInput(backend,
                              CompilerDocument(t, blocks, second, stateMachine,
                                               audio, repeat),
                              includeComments)
NextCompile == CompileToCSS \/ CSSCompile \/ CompileToFramerMotion \/ FramerCompile
SpecCompile == InitCompile /\ [][NextCompile]_vars

NextParser == ResolveField \/ ParseDocument
SpecParser == InitParser /\ [][NextParser]_vars

----------------------------------------------------------------------------
\* Claims

NoStarts == [h \in Ids |-> 0]
StartsBefore(r) == IF r <= Len(runs) THEN runs[r].starts ELSE NoStarts
\* this step issues a start() on the handle of h
StartIssued(h) == \E r \in 1..Len(runs') : runs'[r].starts[h] > StartsBefore(r)[h]

\* C1: after a stop() called during an active run has resolved, and until the
\* next play/trigger call, the state last applied to every handle it reset
\* is the element's initial state
C1_StopLeavesInitial ==
  (sinceStop = "resolved" /\ stopActive) => \A h \in resetDone : applied[h] = "initial"

\* C2: once stop() is called while the runs are suspended on timers or on a
\* start(), no run started before the call executes a further block or
\* start(), and none of its timers is pending
C2_StopHaltsRuns ==
  /\ [](stopActive => \A tm \in timeouts : tm.run > stopMark)
  /\ [][stopActive => \A r \in 1..Len(runs) : r <= stopMark => runs'[r] = runs[r]]_vars

\* C3: the state changes only by idle->playing on play(), playing->paused on
\* pause(), paused->playing on resume(), any->stopped on stop() and then
\* ->idle; play() starts runs only from idle
C3_StateMachine ==
  [][/\ state' # state =>
        \/ state = "idle" /\ state' = "playing" /\ op' = "play"
        \/ state = "playing" /\ state' = "paused" /\ op' = "pause"
        \/ state = "paused" /\ state' = "playing" /\ op' = "resume"
        \/ state' = "stopped" /\ op' = "stop"
        \/ state = "stopped" /\ state' = "idle" /\ calls' = calls
     /\ (calls' # calls /\ op' = "play" /\ Len(runs') > Len(runs)) => state = "idle"
    ]_vars

\* C4: at most one run of a sequence id is executing at any time
C4_NoOverlappingRuns ==
  \A r1, r2 \in 1..Len(runs) :
    (r1 # r2 /\ runs[r1].sid = runs[r2].sid) => ~(RunLive(r1) /\ RunLive(r2))

\* C5: while the state is paused no start() is issued on any handle
C5_PausedIssuesNoStart ==
  [][state = "paused" => \A h \in Ids : ~StartIssued(h)]_vars

\* the time block b takes when nothing interrupts it: its offset, its delay
\* and then its handler
RECURSIVE Wait(_), SumWait(_), MaxWait(_)
Wait(b) ==
  LET n == Len(b.target)
      regIdx == {i \in 1..n : b.target[i] \in controls}
      release(i) ==
        (IF b.stagger.has THEN calculateStaggerDelay(i - 1, n, b.stagger) ELSE 0)
        + HostDuration(b)
      body ==
        IF b.type \in FanoutTypes THEN
          IF regIdx = {} THEN 0
          ELSE CHOOSE w \in {release(i) : i \in regIdx} :
                 \A i \in regIdx : release(i) <= w
        ELSE IF b.type = "group" THEN
          IF b.mode = "parallel" THEN MaxWait(b.animations)
          ELSE SumWait(b.animations)
               + (IF b.stagger.has THEN Len(b.animations) * Ms(b.stagger.each) ELSE 0)
        ELSE IF b.type = "morph" THEN
          IF b.target[1] \in controls THEN HostDuration(b) ELSE 0
        ELSE IF b.type \in {"particles", "text"} THEN Ms(b.duration)
        ELSE 0
  IN Ms(b.offset) + Ms(b.delay) + body
SumWait(bs) == IF bs = <<>> THEN 0 ELSE Wait(Head(bs)) + SumWait(Tail(bs))
MaxWait(bs) == IF bs = <<>> THEN 0 ELSE Max(Wait(Head(bs)), MaxWait(Tail(bs)))

IsBlockTask(t) == t.tgt = 0 /\ t.path # <<>>
ChildrenOf(g) ==
  {c \in tasks : c.run = g.run /\ c.tgt = 0 /\ Len(c.path) = Len(g.path) + 1
                  /\ Front(c.path) = g.path}

\* completed fan-out blocks have issued one start() per target with a handle
\* and none for the others
FanOutCounts ==
  \A t \in tasks :
    (IsBlockTask(t) /\ t.pc = "fin" /\ t.cnt # <<>>) =>
      \A i \in 1..Len(t.cnt) :
        t.cnt[i] = IF BlockOf(Cur, t.run, t.path).target[i] \in controls THEN 1 ELSE 0

\* the sequence of run r holds a fan-out block with a target without handle
HasSkipBlock(r) ==
  \E i \in 1..Len(SeqOf(Cur, r).animations) :
    LET b == SeqOf(Cur, r).animations[i]
    IN b.type \in FanoutTypes /\ \E j \in 1..Len(b.target) : b.target[j] \notin controls

\* the time the sequence takes when nothing interrupts it
SeqWait(seq) ==
  (IF seq.trigger.type = "mount" THEN Ms(seq.trigger.delay) ELSE 0)
  + (IF seq.repeat.has
       THEN seq.repeat.count * (SumWait(seq.animations) + Ms(seq.repeat.delay))
       ELSE SumWait(seq.animations))

\* C6: a fan-out block whose target list holds ids without a handle issues
\* exactly one start() per target with a handle and none for the others, and
\* the run goes on to its end: until sequenceEnd it is never stuck and never
\* older than the waits of its sequence, and then it is no longer active
C6_MissingHandleSkipped ==
  ~disturbed =>
    /\ FanOutCounts
    /\ \A r \in 1..Len(runs) :
         HasSkipBlock(r) =>
           IF r \in ended
             THEN \A t \in tasks : t.run # r
             ELSE /\ RunLive(r)
                  /\ runs[r].sid \in activeSequences
                  /\ now <= GetTask(Cur, r, <<>>, 0).t0 + SeqWait(SeqOf(Cur, r))

C6_Witness ==
  /\ ~disturbed
  /\ \E r \in ended :
       /\ runs[r].starts["a"] = 1 /\ runs[r].starts["b"] = 1
       /\ runs[r].starts["c"] = 0
       /\ \E b \in {SeqOf(Cur, r).animations[i] : i \in 1..Len(SeqOf(Cur, r).animations)} :
            b.type \in FanoutTypes /\ \E i \in 1..Len(b.target) : b.target[i] = "c"

\* C8: a sequence-mode group runs one child at a time, in order, and takes
\* no less than the sum of its children's waits plus one stagger.each between
\* consecutive children; a parallel group starts all children together and
\* completes exactly at the largest of its children's waits
C8_GroupTiming ==
  ~disturbed =>
    \A g \in tasks :
      (IsBlockTask(g) /\ BlockOf(Cur, g.run, g.path).type = "group") =>
        LET b == BlockOf(Cur, g.run, g.path)
            n == Len(b.animations)
            began == g.t0 + Ms(b.offset) + Ms(b.delay)
        IN IF b.mode = "parallel"
             THEN /\ \A c \in ChildrenOf(g) : c.t0 = began
                  /\ g.pc = "fin" => now - began = MaxWait(b.animations)
             ELSE /\ \A c \in ChildrenOf(g) :
                       g.pc = "child" /\ c.path[Len(c.path)] = g.idx
                  /\ g.pc = "fin" =>
                       now - began >= SumWait(b.animations)
                         + (IF b.stagger.has THEN (n - 1) * Ms(b.stagger.each) ELSE 0)

C8_Witness ==
  /\ ~disturbed
  /\ \E g \in tasks :
       LET b == BlockOf(Cur, g.run, g.path)
       IN /\ IsBlockTask(g) /\ g.pc = "fin"
          /\ b.type = "group" /\ b.mode = "sequence" /\ Len(b.animations) = 3
          /\ now - g.t0 >= SumWait(b.animations) + 2 * Ms(b.stagger.each)
          /\ now - g.t0 > 0

\* C7: no start() is issued on a handle that is not registered
C7_NoStartOnUnregistered ==
  [][\A h \in Ids : StartIssued(h) => h \in controls]_vars

\* the multiple of stagger.each, doubled, that claim C9 states for each origin
StatedFactor2(index, total, from, origin) ==
  LET far == Max(index, total - 1 - index)
      near == (total - 1) - far
  IN CASE from \in {"none", "first"} -> 2 * index
       [] from = "last" -> 2 * (total - 1 - index)
       [] from = "center" -> far - near
       [] from = "edges" -> 2 * near
       [] from = "number" -> 2 * Max(index - origin, origin - index)

\* C9: calculateStaggerDelay(index, total, stagger) is stagger.each times
\* index (first, default), total-1-index (last), |index - (total-1)/2| (center),
\* (total-1)/2 - |index - (total-1)/2| (edges), |index - origin| (numeric);
\* center over 5 targets with each = 100 gives 200, 100, 0, 100, 200
C9_StaggerDelay ==
  (px.pc = "staggerDone" /\ px.index < px.total) =>
    /\ px.result = px.stagger.each
                     * StatedFactor2(px.index, px.total, px.stagger.from, px.stagger.origin)
    /\ (px.total = 5 /\ px.stagger.each = 100 /\ px.stagger.from = "center") =>
         px.result = Ms(<<200, 100, 0, 100, 200>>[px.index + 1])

C9_Witness ==
  /\ px.pc = "staggerDone"
  /\ px.total = 5 /\ px.stagger.each = 100 /\ px.stagger.from = "center"
  /\ px.index = 1 /\ px.result = Ms(100)

\* C10: resolving ${$a + $b} for defined numeric variables a and b yields
\* value(a) + value(b) and reports no error
C10_SumResolves ==
  (px.pc = "exprDone" /\ px.kind = "sum" /\ px.spaced) =>
    /\ px.errors = <<>>
    /\ px.value = px.variables[px.a].v + px.variables[px.b].v

\* C11: a field whose expression, plain or braced, references exactly one
\* undefined variable name yields exactly one error, and the error names
\* that variable
C11_UndefinedVariable ==
  (px.pc = "exprDone" /\ px.kind = "undef") =>
    /\ Len(px.errors) = 1
    /\ px.errors[1].ref = px.a

C11_Witness ==
  /\ px.pc = "exprDone" /\ px.kind = "undef"
  /\ px.expression = Braced(<<"$", "x", "+", "$", "x", "1">>)
  /\ px.a = <<"x", "1">>
  /\ px.errors # <<>> /\ px.errors[1].msg = "Unknown variable"

\* the characters the restricted evaluator is stated to accept
StatedChar(c) == IsDigit(c) \/ c \in {"+", "-", "*", "/", "(", ")", "."} \/ IsSpace(c)

\* C12: an arithmetic text made only of digits, + - * / ( ) . and whitespace
\* is never rejected as containing invalid characters, and a text with any
\* other character yields an error for the field
C12_RestrictedEvaluator ==
  (px.pc = "exprDone" /\ px.kind = "text") =>
    IF \A i \in 1..Len(px.a) : StatedChar(px.a[i])
      THEN \A i \in 1..Len(px.errors) : px.errors[i].msg # "invalid characters"
      ELSE px.errors # <<>> /\ px.value = 0

\* C20: a braced expression that references a defined variable whose value
\* is not a number yields an error for the field, whatever the text of the
\* value
C20_NonNumericVariable ==
  (px.pc = "exprDone" /\ px.kind = "nonnum") => px.errors # <<>>

\* the paths of the slots of Document in the states that parse resolves
SlotPath ==
  << <<"elements", "card", "initial", "x">>,
     <<"elements", "card", "initial", "pathMotion", "progress">>,
     <<"timeline", "sequences", "[0]", "animations", "[0]", "to", "x">>,
     <<"timeline", "sequences", "[0]", "animations", "[1]", "animations", "[0]",
       "keyframes", "[0]", "state", "y">> >>

\* the value is an expression that references a variable the document does
\* not define
RefsUndefined(variables, value) ==
  /\ isExpression(value)
  /\ \E i \in 1..Len(extractVariables(value.v)) :
       extractVariables(value.v)[i] \notin DOMAIN variables

FailingSlots ==
  {i \in 1..Len(SlotPath) : RefsUndefined(px.input.variables, SlotValues[px.slots[i]])}

\* C13: when k fields of the states that parse resolves fail, parse reports
\* exactly k errors, one per failing field with that field's path, wherever
\* in the document the failing fields are
C13_ErrorsAccumulate ==
  px.pc = "docDone" =>
    /\ Len(px.result.errors) = Cardinality(FailingSlots)
    /\ {px.result.errors[i].path : i \in 1..Len(px.result.errors)}
         = {SlotPath[i] : i \in FailingSlots}
    /\ px.result.success = (FailingSlots = {})

C13_Witness ==
  /\ px.pc = "docDone"
  /\ FailingSlots = {1, 2, 4}
  /\ Len(px.result.errors) = 3
  /\ px.result.errors[3].path = SlotPath[4]

\* an ElementState, or a block, that holds an expression string
RECURSIVE StateHasExpr(_), BlockHasExpr(_)
StateHasExpr(fields) ==
  \E i \in 1..Len(fields) :
    \/ isExpression(fields[i].value)
    \/ fields[i].value.t = "object" /\ StateHasExpr(fields[i].value.v)
BlockHasExpr(block) ==
  \/ \E i \in 1..Len(block.from) : StateHasExpr(block.from[i])
  \/ StateHasExpr(block.to)
  \/ \E i \in 1..Len(block.keyframes) : StateHasExpr(block.keyframes[i])
  \/ \E i \in 1..Len(block.animations) : BlockHasExpr(block.animations[i])
  \/ \E i \in 1..Len(block.onRelease) : BlockHasExpr(block.onRelease[i])

\* C14: when parse succeeds no ElementState of the resolved document (initial
\* states, from/to, keyframe states, blocks nested in groups, the onRelease
\* block of a drag block) holds an expression string, and color strings are
\* passed through unchanged
C14_ResolvedStates ==
  (px.pc = "docDone" /\ px.result.success) =>
    LET animation == px.result.animation[1]
    IN /\ \A i \in 1..Len(animation.elements) :
            /\ ~StateHasExpr(animation.elements[i].initial)
            /\ animation.elements[i].initial[1] = ColorField
       /\ \A i \in 1..Len(animation.sequences) :
            \A j \in 1..Len(animation.sequences[i].animations) :
              ~BlockHasExpr(animation.sequences[i].animations[j])

\* the paths of the violations of the input chosen by c, one per key of the
\* slice whose value breaks the schema
ViolationPaths(c) ==
  (IF c[1] # 1 THEN {<<"version">>} ELSE {})
  \cup (IF c[2] = 4 THEN {<<"variables", "w">>} ELSE {})
  \cup (IF c[3] = 1 THEN {<<"elements">>}
        ELSE IF c[3] = 4 THEN {<<"elements", "card", "initial", "x">>}
        ELSE IF c[3] = 5 THEN {<<"elements", "card", "type">>} ELSE {})
  \cup (IF c[4] = 1 THEN {<<"timeline">>}
        ELSE IF c[4] = 3 THEN {<<"timeline", "sequences">>} ELSE {})
  \cup (IF c[6] = 4 THEN {<<"meta", "name">>} ELSE {})

\* C15: the validator returns valid with the document and no errors, or
\* invalid with data null and one entry, with path and code, per violation;
\* a text that does not deserialize yields the single error with the root
\* path and the code invalid_json
C15_ValidationShapes ==
  px.pc = "valDone" =>
    LET r == px.result
    IN /\ \/ r.valid /\ r.data.t = "object" /\ r.errors = <<>>
          \/ ~r.valid /\ r.data = Null /\ r.errors # <<>>
       /\ px.kind = "malformed" => r.errors = <<ValidationError(<<>>, "invalid_json")>>
       /\ px.kind # "malformed" =>
            /\ r.valid = (ViolationPaths(px.slots) = {})
            /\ Len(r.errors) = Cardinality(ViolationPaths(px.slots))
            /\ {r.errors[i].path : i \in 1..Len(r.errors)} = ViolationPaths(px.slots)
            /\ \A i \in 1..Len(r.errors) : r.errors[i].code # ""

C15_Witness ==
  /\ px.pc = "valDone" /\ px.kind = "string"
  /\ Cardinality(ViolationPaths(px.slots)) = 4
  /\ Len(px.result.errors) = 4

StatedCurve(stiffness, damping, mass) ==
  IF damping * damping < stiffness * mass THEN StrongOvershoot
  ELSE IF damping * damping < 4 * stiffness * mass THEN MildOvershoot
  ELSE StandardEase

EffectiveStiffness == OrDefault(px.spring.stiffness, DefaultStiffness)
EffectiveDamping == OrDefault(px.spring.damping, DefaultDamping)
EffectiveMass == OrDefault(px.spring.mass, DefaultMass)

RECURSIVE BlockTypesIn(_)
BlockTypesIn(animations) ==
  IF Len(animations) = 0 THEN {}
  ELSE {Head(animations).type} \cup BlockTypesIn(Head(animations).animations)
       \cup BlockTypesIn(Tail(animations))

\* The capability warnings that the features of a document call for
StatedWarnings(dsl_) ==
  UNION {{w \in {jsOnlyTriggers(dsl_.sequences[i].trigger)} : Len(w) > 0}
         \cup {<<"SVG morphing requires JavaScript">> : x \in
                 {"morph"} \cap BlockTypesIn(dsl_.sequences[i].animations)}
         \cup {<<"Particles require JavaScript">> : x \in
                 {"particles"} \cap BlockTypesIn(dsl_.sequences[i].animations)}
         \cup {<<"Match cuts require JavaScript">> : x \in
                 {"matchCut"} \cap BlockTypesIn(dsl_.sequences[i].animations)} :
         i \in 1..Len(dsl_.sequences)}
  \cup (IF dsl_.stateMachine THEN {<<"State machines require JavaScript">>} ELSE {})
  \cup (IF dsl_.audio THEN {<<"Audio sync requires JavaScript">>} ELSE {})

\* C17: every output of the stylesheet backend lists a capability warning for
\* each script-only trigger of the document, for each morph, particles or
\* matchCut block wherever it occurs in a sequence (inside group blocks too),
\* and for a stateMachine or audio section.
C17_CapabilityWarnings ==
  px.kind = "css" =>
    \A n \in 1..Len(px.outputs) :
      \A w \in StatedWarnings(px.self.dsl) :
        \E k \in 1..Len(px.outputs[n].warnings) : <<px.outputs[n].warnings[k]>> = w

\* C18: any two compilations of one document with the same options return
\* the same code, warnings and dependencies, through the functions or through
\* repeated compile() calls on one instance.
C18_Deterministic ==
  px.pc = "compile" =>
    \A m, n \in 1..Len(px.outputs) :
      /\ px.outputs[m].code = px.outputs[n].code
      /\ px.outputs[m].warnings = px.outputs[n].warnings
      /\ px.outputs[m].dependencies = px.outputs[n].dependencies


\* the time the block of task t was reached, plus its offset and its delay
BlockBegan(t) ==
  t.t0 + Ms(BlockOf(Cur, t.run, t.path).offset) + Ms(BlockOf(Cur, t.run, t.path).delay)

\* C21: the state change of a block with offset o and delay d (a start() on
\* one of its targets, or the start of a group's first child) is issued no
\* earlier than o + d after the block was reached, and the delay wait begins
\* only when the offset wait is over.
C21_OffsetThenDelay ==
  /\ \A f \in inflight : \A t \in tasks :
       (t.run = f.run /\ t.path = f.path /\ t.tgt = 0) =>
         f.due - HostDuration(BlockOf(Cur, f.run, f.path)) >= BlockBegan(t)
  /\ \A c \in tasks : \A g \in tasks :
       (c.tgt = 0 /\ g.tgt = 0 /\ Len(c.path) >= 2 /\ g.run = c.run
        /\ g.path = Front(c.path)) => c.t0 >= BlockBegan(g)
  /\ \A t \in tasks :
       (t.tgt = 0 /\ t.pc = "delay") =>
         /\ now >= t.t0 + Ms(BlockOf(Cur, t.run, t.path).offset)
         /\ \A tm \in timeouts :
              (tm.run = t.run /\ tm.path = t.path /\ tm.tgt = 0) =>
                tm.due >= BlockBegan(t)

C21_Witness ==
  /\ \E f \in inflight :
       /\ BlockOf(Cur, f.run, f.path).offset > 0
       /\ BlockOf(Cur, f.run, f.path).delay > 0
       /\ \E t \in tasks : t.run = f.run /\ t.path = f.path /\ t.tgt = 0
  /\ ~disturbed


\* C22: a block that is neither a fan-out block nor a group (morph, particles,
\* text, matchCut, drag) issues no start() on any handle and returns exactly
\* its declared duration after its offset and delay.
C22_TimedNoOp ==
  ~disturbed =>
    /\ \A f \in inflight : BlockOf(Cur, f.run, f.path).type \in FanoutTypes
    /\ \A t \in tasks :
         (/\ t.tgt = 0 /\ t.path # <<>> /\ t.pc = "fin"
          /\ BlockOf(Cur, t.run, t.path).type \notin FanoutTypes \cup {"group"}) =>
           now = BlockBegan(t) + Ms(BlockOf(Cur, t.run, t.path).duration)


StaggerWait(t, i) ==
  LET b == BlockOf(Cur, t.run, t.path)
  IN IF b.stagger.has
       THEN Max(0, calculateStaggerDelay(i - 1, Len(b.target), b.stagger))
       ELSE 0

LinesOf(code) == {code[k] : k \in 1..Len(code)}
Declares(code, id) == <<"const controls", id>> \in LinesOf(code)
Imports(code, name) ==
  \E line \in LinesOf(code) :
    line[1] = "import" /\ \E k \in 2..Len(line) : line[k] = name

\* C24: in the unit that the component backend emits, every control handle
\* that the mount effect starts or that an element is animated by is declared
\* by useAnimation(), useAnimation and useEffect are imported when they are
\* used, and with a group block or a repeat in the document every element has
\* a declared handle.
C24_SelfContained ==
  px.kind = "framer" =>
    \A n \in 1..Len(px.outputs) :
      LET code == px.outputs[n].code
          sequences == px.self.dsl.sequences
      IN /\ \A line \in LinesOf(code) :
              /\ line[1] = "await controls" => Declares(code, line[2])
              /\ (line[1] = "<motion.div" /\ \E k \in 1..Len(line) : line[k] = "animate")
                   => Declares(code, line[2])
              /\ line[1] = "const controls" => Imports(code, "useAnimation")
              /\ line[1] = "useEffect(() => {" =>
                   <<"import { useEffect } from 'react';">> \in LinesOf(code)
         /\ (\E i \in 1..Len(sequences) :
               \/ sequences[i].repeat
               \/ "group" \in BlockTypesIn(sequences[i].animations)) =>
              /\ Imports(code, "useAnimation")
              /\ \A k \in 1..Len(px.self.dsl.elements) :
                   Declares(code, px.self.dsl.elements[k])


\* the triple that claim C25 states for a config that names a preset: the
\* preset's values, each overridden by the field the config gives
StatedTriple(config) ==
  LET Field_(value, preset) == IF value.t = "number" THEN value.v ELSE preset
  IN Triple(Field_(config.stiffness, SPRING_PRESETS[config.preset].stiffness),
            Field_(config.damping, SPRING_PRESETS[config.preset].damping),
            Field_(config.mass, SPRING_PRESETS[config.preset].mass))

\* C25: for a spring config that names a preset, the resolver, the
\* interpreter and the component backend each derive the preset's (stiffness,
\* damping, mass) with every explicitly given field overriding it.
C25_PresetExpansion ==
  (px.kind = "preset" /\ px.config.preset # "") =>
    /\ px.resolved # NoTriple => px.resolved = StatedTriple(px.config)
    /\ px.converted # NoTriple => px.converted = StatedTriple(px.config)
    /\ px.code # NoTriple => px.code = StatedTriple(px.config)


\* the value at a path of keys below an object, undefined where a key is
\* missing
RECURSIVE GetPath(_, _)
GetPath(value, path) ==
  IF path = <<>> THEN value
  ELSE IF value.t # "object" THEN Undefined
  ELSE GetPath(Get(value, Head(path)), Tail(path))

\* the fields of the validator's inputs that the schema does not name: on
\* the root, on meta and on an element state
UnknownFields ==
  { <<"note">>, <<"meta", "tag">>, <<"elements", "card", "initial", "hue">> }

\* C26: for an input that validateDSL accepts, every field that the schema
\* does not name appears unchanged in the validated data.
C26_UnknownFieldsKept ==
  (px.kind = "object" /\ px.pc = "valDone" /\ px.result.valid) =>
    \A path \in UnknownFields :
      GetPath(px.result.data, path) = GetPath(px.input, path)


\* C29: for distinct defined numeric variables, one name a prefix of the
\* other or not, the field "${$a+$b}" written without whitespace resolves to
\* value(a) + value(b) without an error, in either order of the names.
C29_SubstitutionByName ==
  (px.kind = "sum" /\ px.pc = "exprDone" /\ ~px.spaced /\ px.a # px.b) =>
    /\ px.errors = <<>>
    /\ px.value = px.variables[px.a].v + px.variables[px.b].v


\* a run that has not ended and that no step can continue: none of its
\* suspended calls has a pending timer, a start() in flight or a resolved
\* promise
Stuck(r) == r \notin ended /\ ~RunLive(r)

\* C27: a run that can still go on when stop() is called can still go on
\* after it, so that it ends and the play() that awaits it resolves.
C27_StopReleasesRuns ==
  [][(op' = "stop" /\ calls' # calls) =>
       \A r \in 1..Len(runs) : RunLive(r) => (r \in ended' \/ RunLive(r)')]_vars

\* C28: after pause() and then resume(), every run that has not ended can
\* still go on.
C28_ResumeContinuesRuns ==
  (op = "resume" /\ state = "playing") =>
    \A r \in 1..Len(runs) : ~Stuck(r)

\* C30: when every run has ended, with no stop() or pause() called, and the
\* last call was play(), the interpreter is not in state playing and the
\* next play() starts the mount sequences again.
PlayedOut ==
  /\ op = "play" /\ ~disturbed
  /\ runs # <<>> /\ \A r \in 1..Len(runs) : r \in ended
  /\ \E k \in 1..Len(dsl.sequences) : dsl.sequences[k].trigger.type = "mount"
C30_PlayAgain ==
  [][(PlayedOut /\ op' = "play" /\ calls' # calls) =>
       (state # "playing" /\ Len(runs') > Len(runs))]_vars

====
